---- MODULE Spec2Model ----
(***************************************************************************)
(* MiddleRoomStore (src/src/stores/app/middle-room.ts): the session core   *)
(* of the classroom.  The transport's notifications reach the handlers     *)
(* that join() registers; three of them run their bodies through the       *)
(* session mutex (sceneStore.mutex.dispatch), the others run on arrival.   *)
(* The stage commands (clickPlatform, removeGroup) write the shared        *)
(* property tree, whose snapshots come back as classroom-property-updated. *)
(***************************************************************************)
EXTENDS Integers, Sequences, FiniteSets, TLC

\* ------------------------------------------------------------------ bounds
\* notifications the transport delivers in one behaviour
MaxEvents == 2
\* device calls (probe, open, close) that fail in one behaviour
MaxFailures == 1
\* clickPlatform calls in one behaviour
MaxClicks == 3
\* groupOnSave calls in one behaviour
MaxSaves == 1
\* addGroupStar / sendReward calls in one behaviour
MaxStars == 2
\* removeGroup calls in one behaviour
MaxRemoves == 1
\* join() calls of the session in one behaviour
MaxJoins == 2
\* commands of the teacher in one behaviour
MaxCommands == 4
\* snapshots of the commands' updates that are sent and not yet handled
MaxInflight == 2
\* entries of sceneStore.studentStreams
MaxStreams == 1
\* notifications of one behaviour of hand raising
MaxHandRaises == 3

\* ------------------------------------------------------------------ values
\* the local main stream descriptor of the transport (getLocalStreamData);
\* present = FALSE is the absent descriptor
NoStreamData == [present |-> FALSE, state |-> 0, hasVideo |-> FALSE, hasAudio |-> FALSE]
OfflineData == [present |-> TRUE, state |-> 0, hasVideo |-> FALSE, hasAudio |-> FALSE]
OnlineData(v, a) == [present |-> TRUE, state |-> 1, hasVideo |-> v, hasAudio |-> a]
MainData == {NoStreamData, OfflineData} \cup {OnlineData(v, a) : v \in BOOLEAN, a \in BOOLEAN}
\* the local screen descriptor (getLocalScreenData): only presence and state matter
ScreenData == {NoStreamData, OfflineData, OnlineData(TRUE, FALSE)}

\* localStream.stream, the value cached in _cameraEduStream / _screenEduStream
NoEduStream == [present |-> FALSE, hasVideo |-> FALSE, hasAudio |-> FALSE]
EduStreamOf(d) == [present |-> TRUE, hasVideo |-> d.hasVideo, hasAudio |-> d.hasAudio]

Users == {"u1", "u2"}
\* the students that groupOnSave puts into groups
Students == {"u1", "u2", "u3", "u4"}
GroupIds == {"group_id_1", "group_id_2", "group_id_3"}
NoNotice == [reason |-> "", userUuid |-> ""]

\* peer messages (evt.message.message): text that is not JSON, JSON without
\* data/payload/fromUser, and decoded commands
BadJson == [json |-> FALSE, wellFormed |-> FALSE, cmd |-> 0, action |-> "", uuid |-> ""]
Malformed == [json |-> TRUE, wellFormed |-> FALSE, cmd |-> 1, action |-> "", uuid |-> ""]
Command(c, a, u) == [json |-> TRUE, wellFormed |-> TRUE, cmd |-> c, action |-> a, uuid |-> u]
\* InvitationEnum.Apply / Cancel / Accept and PeerInviteEnum.teacherAccept
InvitationActions == {"Apply", "Cancel", "Accept", "teacherAccept"}
NoMsg == [json |-> FALSE, wellFormed |-> FALSE, cmd |-> 0, action |-> "none", uuid |-> ""]

\* the property tree (MiddleRoomProperties with the record namespace):
\* record = -1 when the tree has no record key; g1/g2 = "" when the slot is
\* empty; groups and students are the keys of those namespaces; reward is
\* students.<uuid>.reward (0 for a student without a record)
InitialRoomProperties ==
    [record |-> -1, g1 |-> "", g2 |-> "", groupsState |-> 0,
     interactInGroup |-> 0, interactOutGroup |-> 0, groups |-> {}, students |-> {},
     reward |-> [u \in Students |-> 0]]
InitialRoomStatus == [courseState |-> 0, startTime |-> 0, isStudentChatAllowed |-> TRUE]

\* a property update (updateRoomBatchProperties): the paths it sets; "keep"
\* and -1 stand for a path the update does not name
NoPatch ==
    [g1 |-> "keep", g2 |-> "keep", groupsState |-> -1, interactInGroup |-> -1,
     interactOutGroup |-> -1, setGroups |-> FALSE, groups |-> {},
     reward |-> [u \in Students |-> -1]]

\* a facade command: where it is suspended (pc), its argument (group, user),
\* the update it builds, the local roomProperties and whether no snapshot was
\* in flight when it was called, the branch it took and the call that rejected
NoCmd ==
    [name |-> "", pc |-> "idle", group |-> "", user |-> "", patch |-> NoPatch,
     before |-> InitialRoomProperties, synced |-> FALSE, branch |-> "", failedAt |-> "",
     streams |-> <<>>]

\* a remote call: its name, the members of the stream batch with their
\* videoState / audioState (-1 when the call carries none), the update
NoCall ==
    [name |-> "", members |-> {}, videoState |-> -1, audioState |-> -1, patch |-> NoPatch]

VARIABLES
    \* the transport (roomManager): local descriptors, full stream and user lists
    localStreamData, localScreenData, fullStreamList, fullUserList,
    \* the room service: authoritative property tree, room status, published
    \* stage streams, and the classroom snapshots in flight to this session
    serverProps, serverStatus, serverStreams, inflight,
    \* the session: roomInfo.userRole, sceneStore.joiningRTC, and the fields of
    \* MiddleRoomStore and sceneStore that the handlers and commands write
    userRole, joiningRTC, store,
    \* sceneStore.mutex: queued task bodies, bodies in progress, the lock
    queue, ctxs, locked,
    \* join(), leave() and the facade command in progress; the classroom info
    \* that join() read (roomInfo)
    joinPc, leavePc, cmd, roomInfo,
    \* history: notifications generated, handler invocations, device failures,
    \* exceptions that left a task body, the notifications that arrived while a
    \* body was suspended (dispatched or direct), the last two finished tasks,
    \* the arrival-order reference run, the commands issued (clicks, saves,
    \* stars) and the remote calls of the running or last command, the room
    \* statuses applied to the session by join() and by the handler, in order
    arrived, delivered, failures, escaped, overlapped, lastPass, prevPass,
    ref, refq, clicks, saves, remoteCalls, stars, applied

transportVars == <<localStreamData, localScreenData, fullStreamList, fullUserList>>
serverVars == <<serverProps, serverStatus, serverStreams, inflight>>
mutexVars == <<queue, ctxs, locked>>
procVars == <<joinPc, leavePc, cmd, roomInfo>>
passVars == <<lastPass, prevPass>>
refVars == <<ref, refq>>
stageHist == <<clicks, saves, remoteCalls, stars>>

vars == <<transportVars, serverVars, userRole, joiningRTC, store, mutexVars,
          procVars, arrived, delivered, failures, escaped, overlapped,
          passVars, refVars, stageHist, applied>>

\* ------------------------------------------------------------------ session
\* the fields at construction (MiddleRoomStore's initializers; sceneStore's
\* are its reset values)
InitialStore ==
    [cameraEduStream |-> NoEduStream, screenEduStream |-> NoEduStream,
     sharing |-> FALSE, hasCamera |-> FALSE, hasMicrophone |-> FALSE,
     cameraOpen |-> FALSE, micOpen |-> FALSE,
     notice |-> NoNotice, applyUsers |-> <<>>,
     userList |-> {}, streamList |-> {},
     roomProperties |-> InitialRoomProperties,
     recordState |-> FALSE, recordId |-> "",
     roomChatMessages |-> <<>>,
     classState |-> 0, startTime |-> 0, timer |-> FALSE, intervals |-> 0,
     isMuted |-> FALSE, quit |-> FALSE, joined |-> FALSE, loading |-> FALSE]

\* a notification as the handlers see it
NoClassroom == [roomProperties |-> InitialRoomProperties, roomStatus |-> InitialRoomStatus]
Event(k, t) == [kind |-> k, type |-> t, msg |-> NoMsg, classroom |-> NoClassroom, list |-> {}]
NoEvent == Event("none", "")

RemoteUserKinds == {"remote-user-added", "remote-user-updated", "remote-user-removed"}
RemoteStreamKinds == {"remote-stream-added", "remote-stream-updated", "remote-stream-removed"}

\* variant: adding a name that is registered leaves the old interval ticking
AddIntervalStacking(s) == [s EXCEPT !.timer = TRUE, !.intervals = @ + 1]

\* SimpleInterval: one interval per name; adding a name that is registered
\* replaces it, deleting a name that is not registered does nothing.  timer
\* says whether the name 'timer' is registered, intervals how many intervals
\* started under that name are ticking
AddInterval(s) == [s EXCEPT !.timer = TRUE, !.intervals = 1]
DelInterval(s) == [s EXCEPT !.timer = FALSE, !.intervals = 0]

AddChatMessage(s, id) == [s EXCEPT !.roomChatMessages = Append(@, id)]

\* variant: a record state of 0 is announced whatever recordState is
RecordUpdateAlways(s, classroom) ==
    LET state == classroom.roomProperties.record IN
    IF state = -1 THEN s
    ELSE IF state = 1 THEN [s EXCEPT !.recordState = TRUE]
    ELSE IF state = 0
         THEN [AddChatMessage(s, "system") EXCEPT !.recordState = FALSE, !.recordId = ""]
         ELSE s

\* the record part of classroom-property-updated
RecordUpdate(s, classroom) ==
    LET state == classroom.roomProperties.record IN
    IF state = -1 THEN s
    ELSE IF state = 1 THEN [s EXCEPT !.recordState = TRUE]
    ELSE IF state = 0 /\ s.recordState
         THEN [AddChatMessage(s, "system") EXCEPT !.recordState = FALSE, !.recordId = ""]
         ELSE s

\* variant: the timer is removed when the class starts and added otherwise
ClassStateUpdateSwapped(s, classroom) ==
    LET newClassState == classroom.roomStatus.courseState IN
    IF s.classState # newClassState
    THEN LET s1 == [s EXCEPT !.classState = newClassState,
                             !.startTime = classroom.roomStatus.startTime] IN
         IF newClassState = 1 THEN DelInterval(s1) ELSE AddInterval(s1)
    ELSE s

\* the class state part of classroom-property-updated
ClassStateUpdate(s, classroom) ==
    LET newClassState == classroom.roomStatus.courseState IN
    IF s.classState # newClassState
    THEN LET s1 == [s EXCEPT !.classState = newClassState,
                             !.startTime = classroom.roomStatus.startTime] IN
         IF newClassState = 1 THEN AddInterval(s1) ELSE DelInterval(s1)
    ELSE s

\* the body of the classroom-property-updated handler
ClassroomPropertyUpdated(s, classroom) ==
    LET s1 == [s EXCEPT !.roomProperties = classroom.roomProperties]
        s2 == RecordUpdate(s1, classroom)
        s3 == ClassStateUpdate(s2, classroom)
    IN [s3 EXCEPT !.isMuted = ~classroom.roomStatus.isStudentChatAllowed,
                  !.roomProperties = classroom.roomProperties]

\* variant: the remote-stream handlers set sharing whatever the role
RemoteStreamChangedAnyRole(s, list, role) ==
    [s EXCEPT !.streamList = list, !.sharing = ("screen" \in list)]

\* the body of the remote-stream-added / -removed / -updated handlers
RemoteStreamChanged(s, list, role) ==
    LET s1 == [s EXCEPT !.streamList = list] IN
    IF role # "teacher" THEN [s1 EXCEPT !.sharing = ("screen" \in list)] ELSE s1

\* the handlers that join() registers without the mutex: each runs to its end
\* when the notification arrives
DirectHandler(s, ev, role) ==
    CASE ev.kind \in RemoteUserKinds \cup {"local-user-updated"} ->
            [s EXCEPT !.userList = ev.list]
      [] ev.kind \in RemoteStreamKinds -> RemoteStreamChanged(s, ev.list, role)
      [] ev.kind = "local-user-removed" ->
            IF role = "student" THEN [s EXCEPT !.quit = TRUE] ELSE s
      [] ev.kind = "classroom-property-updated" -> ClassroomPropertyUpdated(s, ev.classroom)
      [] ev.kind = "room-chat-message" -> AddChatMessage(s, ev.msg.uuid)
      [] OTHER -> s

\* the handlers whose body awaits remote or device calls
Suspends(kind) ==
    kind \in {"local-stream-removed", "local-stream-updated", "user-message"}

\* variant: local-stream-updated registered without the mutex
DispatchedButUpdated(kind) == kind \in {"local-stream-removed", "user-message"}

\* the handlers whose body join() hands to sceneStore.mutex.dispatch
Dispatched(kind) ==
    kind \in {"local-stream-removed", "local-stream-updated", "user-message"}

\* ------------------------------------------------------------------ task bodies
\* A body in progress: the notification, where it is suspended (pc), what it
\* has read (guard: joiningRTC at its start; desc / scr: the descriptors;
\* camProbe / micProbe: the probes' answers; attached: joiningRTC after the
\* probes; userFound: the sender is in the transport's user list), the device
\* call it is waiting for (op), how it failed, the device calls it issued,
\* the devices' state before and after it, and whether the mutex runs it.
NewCtx(ev, seq, s) ==
    [seq |-> seq, ev |-> ev, pc |-> "start", guard |-> FALSE,
     desc |-> NoStreamData, scr |-> NoStreamData,
     camProbe |-> "none", micProbe |-> "none", attached |-> "none",
     userFound |-> FALSE, op |-> "none", failAt |-> "none", failed |-> "no",
     calls |-> <<>>, before |-> <<s.cameraOpen, s.micOpen>>,
     after |-> <<s.cameraOpen, s.micOpen>>, serialized |-> TRUE]
NoCtx == NewCtx(NoEvent, 0, InitialStore)

R(c, s) == [c |-> c, s |-> s]
Call(c, name, pc, op) == [c EXCEPT !.calls = Append(@, name), !.pc = pc, !.op = op]
Done(c) == [c EXCEPT !.pc = "done", !.op = "none"]

\* the handlers whose body is wrapped in try/catch: local-stream-removed and
\* user-message; local-stream-updated has none
CatchesInBody(kind) == kind \in {"local-stream-removed", "user-message"}

\* an exception raised in a body at `at`
Throw(c, at) ==
    [c EXCEPT !.pc = "done", !.op = "none", !.failAt = at,
              !.failed = IF CatchesInBody(c.ev.kind) THEN "caught" ELSE "escaped"]

\* variant: local-stream-removed without the guard
GuardPassesRemoved(kind, jr) == kind = "local-stream-removed" \/ jr

\* the guard at the head of every dispatched body
GuardPasses(kind, jr) == jr

\* variant: the microphone follows hasVideo
MicStageByVideo(c, s) ==
    IF ~s.hasMicrophone THEN Done(c)
    ELSE IF c.ev.kind = "user-message" THEN Call(c, "openMicrophone", "microphone", "open")
    ELSE IF ~s.cameraEduStream.present THEN Throw(c, "read")
    ELSE IF s.cameraEduStream.hasVideo
         THEN Call(c, "openMicrophone", "microphone", "open")
         ELSE Call(c, "closeMicrophone", "microphone", "close")

\* the microphone branch: local-stream-updated follows the cached stream's
\* hasAudio, the teacher's accept opens
MicStage(c, s) ==
    IF ~s.hasMicrophone THEN Done(c)
    ELSE IF c.ev.kind = "user-message" THEN Call(c, "openMicrophone", "microphone", "open")
    ELSE IF ~s.cameraEduStream.present THEN Throw(c, "read")
    ELSE IF s.cameraEduStream.hasAudio
         THEN Call(c, "openMicrophone", "microphone", "open")
         ELSE Call(c, "closeMicrophone", "microphone", "close")

\* variant: the camera is called only when its state differs from hasVideo
CameraStageIfChanged(c, s) ==
    IF ~s.hasCamera THEN MicStage(c, s)
    ELSE IF c.ev.kind = "user-message" THEN Call(c, "openCamera", "camera", "open")
    ELSE IF ~s.cameraEduStream.present THEN Throw(c, "read")
    ELSE IF s.cameraEduStream.hasVideo = s.cameraOpen THEN MicStage(c, s)
    ELSE IF s.cameraEduStream.hasVideo
         THEN Call(c, "openCamera", "camera", "open")
         ELSE Call(c, "closeCamera", "camera", "close")

\* the camera branch, then the microphone's when the camera is not available
CameraStage(c, s) ==
    IF ~s.hasCamera THEN MicStage(c, s)
    ELSE IF c.ev.kind = "user-message" THEN Call(c, "openCamera", "camera", "open")
    ELSE IF ~s.cameraEduStream.present THEN Throw(c, "read")
    ELSE IF s.cameraEduStream.hasVideo
         THEN Call(c, "openCamera", "camera", "open")
         ELSE Call(c, "closeCamera", "camera", "close")

InvitationText(action) ==
    CASE action = "Apply" -> "student_hands_up"
      [] action = "Cancel" -> "student_hands_down"
      [] action = "Accept" -> "the_teacher_accepted"
      [] OTHER -> "you_have_a_default_message"

Contains(seq, x) == \E i \in 1..Len(seq) : seq[i] = x
Without(seq, x) == SelectSeq(seq, LAMBDA y : y # x)

\* variant: an Apply is listed without looking for the sender's entry
ShowInvitationNoticeAlwaysAdds(c, s, msg, found, role) ==
    LET s1 == [s EXCEPT !.notice = [reason |-> InvitationText(msg.action), userUuid |-> msg.uuid]]
        s2 == IF msg.action = "Apply" /\ found
              THEN [s1 EXCEPT !.applyUsers = Append(@, msg.uuid)] ELSE s1
        s3 == IF msg.action = "Cancel"
              THEN [s2 EXCEPT !.applyUsers = Without(@, msg.uuid)] ELSE s2
    IN IF msg.action = "teacherAccept" /\ role = "student"
       THEN R(Call(c, "prepareCamera", "prepareCamera", "probe"), s3)
       ELSE R(Done(c), s3)

\* showInvitationNotice up to its first await
ShowInvitationNotice(c, s, msg, found, role) ==
    LET s1 == [s EXCEPT !.notice = [reason |-> InvitationText(msg.action), userUuid |-> msg.uuid]]
        s2 == IF msg.action = "Apply" /\ ~Contains(s1.applyUsers, msg.uuid) /\ found
              THEN [s1 EXCEPT !.applyUsers = Append(@, msg.uuid)] ELSE s1
        s3 == IF msg.action = "Cancel"
              THEN [s2 EXCEPT !.applyUsers = Without(@, msg.uuid)] ELSE s2
    IN IF msg.action = "teacherAccept" /\ role = "student"
       THEN R(Call(c, "prepareCamera", "prepareCamera", "probe"), s3)
       ELSE R(Done(c), s3)

\* variant: every text that parses reaches the notice
UserMessageUnchecked(c, s, found, role) ==
    LET msg == c.ev.msg IN
    IF ~msg.json THEN R(Done(c), s)
    ELSE IF msg.cmd = 1 THEN ShowInvitationNotice(c, s, msg, found, role)
    ELSE R(Done(c), s)

\* the body of the user-message handler up to its first await
UserMessage(c, s, found, role) ==
    LET msg == c.ev.msg IN
    IF ~msg.json THEN R(Done(c), s)
    ELSE IF ~msg.wellFormed THEN R(Throw(c, "decode"), s)
    ELSE IF msg.cmd = 1 THEN ShowInvitationNotice(c, s, msg, found, role)
    ELSE R(Done(c), s)

\* the body of the local-stream-removed handler up to its first await
LocalStreamRemoved(c, s) ==
    IF c.ev.type = "main"
    THEN R(Call(c, "closeCamera", "camera", "close"), [s EXCEPT !.cameraEduStream = NoEduStream])
    ELSE R(Done(c), s)

\* variant: the offline branch leaves the cached stream as it is
LocalStreamUpdatedKeepCache(c, s, role) ==
    IF c.ev.type = "main"
    THEN IF c.desc.present /\ c.desc.state # 0
         THEN R(Call(c, "prepareCamera", "prepareCamera", "probe"),
                [s EXCEPT !.cameraEduStream = EduStreamOf(c.desc)])
         ELSE R(Done(c), s)
    ELSE IF role = "teacher"
         THEN IF c.scr.present /\ c.scr.state # 0
              THEN R(Done(c), [s EXCEPT !.screenEduStream = EduStreamOf(c.scr), !.sharing = TRUE])
              ELSE R(Done(c), [s EXCEPT !.screenEduStream = NoEduStream, !.sharing = FALSE])
         ELSE R(Done(c), s)

\* the body of the local-stream-updated handler up to its first await
LocalStreamUpdated(c, s, role) ==
    IF c.ev.type = "main"
    THEN IF c.desc.present /\ c.desc.state # 0
         THEN R(Call(c, "prepareCamera", "prepareCamera", "probe"),
                [s EXCEPT !.cameraEduStream = EduStreamOf(c.desc)])
         ELSE R(Done(c), [s EXCEPT !.cameraEduStream = NoEduStream])
    ELSE IF role = "teacher"
         THEN IF c.scr.present /\ c.scr.state # 0
              THEN R(Done(c), [s EXCEPT !.screenEduStream = EduStreamOf(c.scr), !.sharing = TRUE])
              ELSE R(Done(c), [s EXCEPT !.screenEduStream = NoEduStream, !.sharing = FALSE])
         ELSE R(Done(c), s)

\* a dispatched body from its start to its first await; jr, lsd, lscr and
\* found are joiningRTC, getLocalStreamData(), getLocalScreenData() and the
\* lookup of the sender in roomManager.data.userList as the body reads them
StartBody(c0, s, jr, lsd, lscr, found, role) ==
    LET c == [c0 EXCEPT !.guard = jr, !.desc = lsd, !.scr = lscr, !.userFound = found] IN
    IF ~GuardPasses(c.ev.kind, jr) THEN R(Done(c), s)
    ELSE CASE c.ev.kind = "local-stream-removed" -> LocalStreamRemoved(c, s)
           [] c.ev.kind = "local-stream-updated" -> LocalStreamUpdated(c, s, role)
           [] c.ev.kind = "user-message" -> UserMessage(c, s, found, role)
           [] OTHER -> R(Done(c), s)

\* variant: joiningRTC is not read again after the probes
AfterProbesNoRecheck(c, s, jr) ==
    IF c.ev.kind = "local-stream-updated"
    THEN R(CameraStage([c EXCEPT !.attached = IF jr THEN "yes" ELSE "no"], s), s)
    ELSE R(CameraStage(c, s), s)

\* what follows the two probes: local-stream-updated actuates only while
\* joiningRTC still holds; the teacher's accept goes on without the check
AfterProbes(c, s, jr) ==
    IF c.ev.kind = "local-stream-updated"
    THEN LET c1 == [c EXCEPT !.attached = IF jr THEN "yes" ELSE "no"] IN
         IF jr THEN R(CameraStage(c1, s), s) ELSE R(Done(c1), s)
    ELSE R(CameraStage(c, s), s)

\* sceneStore.prepareCamera / prepareMicrophone: the probe's answer is kept in
\* _hasCamera / _hasMicrophone
PrepareCamera(s, out) == [s EXCEPT !.hasCamera = (out = "yes")]
PrepareMicrophone(s, out) == [s EXCEPT !.hasMicrophone = (out = "yes")]

\* sceneStore.openCamera / closeCamera / openMicrophone / closeMicrophone: the
\* device is open after open, closed after close, whatever it was before
CameraCall(s, op) == [s EXCEPT !.cameraOpen = (op = "open")]
MicrophoneCall(s, op) == [s EXCEPT !.micOpen = (op = "open")]

\* a suspended body resumes with the answer `out` of the call it awaits and
\* runs to its next await: prepareCamera / prepareMicrophone answer "yes",
\* "no" (device absent) or "fail"; open and close answer "ok" or "fail"
ResumeBody(c, s, jr, out) ==
    IF out = "fail" THEN R(Throw(c, c.pc), s)
    ELSE CASE c.pc = "prepareCamera" ->
                R(Call([c EXCEPT !.camProbe = out], "prepareMicrophone", "prepareMicrophone", "probe"),
                  PrepareCamera(s, out))
           [] c.pc = "prepareMicrophone" ->
                AfterProbes([c EXCEPT !.micProbe = out], PrepareMicrophone(s, out), jr)
           [] c.pc = "camera" ->
                LET s1 == CameraCall(s, c.op) IN
                IF c.ev.kind = "local-stream-removed"
                THEN R(Call(c, "closeMicrophone", "microphone", "close"), s1)
                ELSE R(MicStage(c, s1), s1)
           [] c.pc = "microphone" ->
                R(Done(c), MicrophoneCall(s, c.op))
           [] OTHER -> R(c, s)

Answers(pc) ==
    IF pc \in {"prepareCamera", "prepareMicrophone"} THEN {"yes", "no", "fail"}
    ELSE {"ok", "fail"}

\* ------------------------------------------------------------------ reference run
\* The same handlers run one at a time, each from its start to its end, given
\* what the body read and what its device calls answered (the fields of c).
SeqProbes(r, c) ==
    IF c.failAt = "prepareCamera" THEN [ok |-> FALSE, s |-> r]
    ELSE LET r1 == [r EXCEPT !.hasCamera = (c.camProbe = "yes")] IN
         IF c.failAt = "prepareMicrophone" THEN [ok |-> FALSE, s |-> r1]
         ELSE [ok |-> TRUE, s |-> [r1 EXCEPT !.hasMicrophone = (c.micProbe = "yes")]]

SeqActuate(r, c, cam, mic) ==
    IF r.hasCamera /\ c.failAt = "camera" THEN r
    ELSE LET r1 == IF r.hasCamera THEN [r EXCEPT !.cameraOpen = cam] ELSE r IN
         IF r1.hasMicrophone /\ c.failAt # "microphone"
         THEN [r1 EXCEPT !.micOpen = mic] ELSE r1

SeqRemoved(r, c) ==
    IF c.ev.type # "main" THEN r
    ELSE LET r1 == [r EXCEPT !.cameraEduStream = NoEduStream] IN
         IF c.failAt = "camera" THEN r1
         ELSE LET r2 == [r1 EXCEPT !.cameraOpen = FALSE] IN
              IF c.failAt = "microphone" THEN r2 ELSE [r2 EXCEPT !.micOpen = FALSE]

SeqUpdated(r, c, role) ==
    IF c.ev.type = "main"
    THEN IF ~(c.desc.present /\ c.desc.state = 1)
         THEN [r EXCEPT !.cameraEduStream = NoEduStream]
         ELSE LET p == SeqProbes([r EXCEPT !.cameraEduStream = EduStreamOf(c.desc)], c) IN
              IF ~p.ok \/ c.attached # "yes" THEN p.s
              ELSE SeqActuate(p.s, c, c.desc.hasVideo, c.desc.hasAudio)
    ELSE IF role # "teacher" THEN r
    ELSE IF c.scr.present /\ c.scr.state = 1
         THEN [r EXCEPT !.screenEduStream = EduStreamOf(c.scr), !.sharing = TRUE]
         ELSE [r EXCEPT !.screenEduStream = NoEduStream, !.sharing = FALSE]

SeqUserMessage(r, c, role) ==
    LET msg == c.ev.msg IN
    IF ~(msg.json /\ msg.wellFormed /\ msg.cmd = 1) THEN r
    ELSE LET r1 == [r EXCEPT !.notice = [reason |-> InvitationText(msg.action), userUuid |-> msg.uuid]]
             listed == \E i \in DOMAIN r1.applyUsers : r1.applyUsers[i] = msg.uuid
             r2 == CASE msg.action = "Apply" /\ c.userFound /\ ~listed ->
                          [r1 EXCEPT !.applyUsers = @ \o <<msg.uuid>>]
                     [] msg.action = "Cancel" ->
                          [r1 EXCEPT !.applyUsers = SelectSeq(@, LAMBDA u : u # msg.uuid)]
                     [] OTHER -> r1
         IN IF msg.action = "teacherAccept" /\ role = "student"
            THEN LET p == SeqProbes(r2, c) IN
                 IF p.ok THEN SeqActuate(p.s, c, TRUE, TRUE) ELSE p.s
            ELSE r2

ApplyTask(r, c, role) ==
    IF ~c.guard THEN r
    ELSE CASE c.ev.kind = "local-stream-removed" -> SeqRemoved(r, c)
           [] c.ev.kind = "local-stream-updated" -> SeqUpdated(r, c, role)
           [] c.ev.kind = "user-message" -> SeqUserMessage(r, c, role)
           [] OTHER -> r

\* the reference run takes the notifications in arrival order: a handler that
\* ran on arrival waits behind the tasks that arrived before it
RefEntry(seq, ev) == [seq |-> seq, ev |-> ev, done |-> FALSE, c |-> NoCtx]

RECURSIVE Flush(_, _, _)
Flush(r, q, role) ==
    IF q = <<>> THEN [ref |-> r, refq |-> q]
    ELSE IF ~Suspends(Head(q).ev.kind) THEN Flush(DirectHandler(r, Head(q).ev, role), Tail(q), role)
    ELSE IF Head(q).done THEN Flush(ApplyTask(r, Head(q).c, role), Tail(q), role)
    ELSE [ref |-> r, refq |-> q]

MarkDone(q, c) == [i \in DOMAIN q |-> IF q[i].seq = c.seq THEN [q[i] EXCEPT !.done = TRUE, !.c = c] ELSE q[i]]

\* ------------------------------------------------------------------ initial state
Init ==
    /\ localStreamData = NoStreamData
    /\ localScreenData = NoStreamData
    /\ fullStreamList = {}
    /\ fullUserList = {}
    /\ serverProps = InitialRoomProperties
    /\ serverStatus = InitialRoomStatus
    /\ serverStreams = {}
    /\ inflight = <<>>
    /\ userRole \in {"teacher", "student"}
    /\ joiningRTC = FALSE
    /\ store = InitialStore
    /\ queue = <<>>
    /\ ctxs = <<>>
    /\ locked = FALSE
    /\ joinPc = "init"
    /\ leavePc = "idle"
    /\ cmd = NoCmd
    /\ roomInfo = NoClassroom
    /\ arrived = 0
    /\ failures = 0
    /\ escaped = 0
    /\ delivered = 0
    /\ overlapped = {}
    /\ lastPass = NoCtx
    /\ prevPass = NoCtx
    /\ ref = InitialStore
    /\ refq = <<>>
    /\ clicks = 0
    /\ saves = [groupOnSave |-> 0, removeGroup |-> 0]
    /\ remoteCalls = <<>>
    /\ stars = <<>>
    /\ applied = <<>>

\* ------------------------------------------------------------------ notifications
\* the calls that join()'s device pass awaits one after the other; "devices"
\* is the await of prepareCamera
JoinDeviceCalls ==
    {"devices.openCamera", "devices.closeCamera",
     "devices.openMicrophone", "devices.closeMicrophone"}
JoinPassAwaits == {"devices", "devices.prepareMicrophone"} \cup JoinDeviceCalls

\* the handlers are registered and the room is entered
Listening ==
    /\ joinPc \in {"studentInit", "entered", "attached", "publish", "devices", "boardInit", "joined"}
                    \cup JoinPassAwaits
    /\ leavePc # "left"

\* a room status applied to the session: by join() or by the handler of a
\* snapshot, with the snapshot's record.state (-1 without a record key)
Applied(by, classroom) ==
    [by |-> by, record |-> classroom.roomProperties.record,
     courseState |-> classroom.roomStatus.courseState]

\* A notification reaches its handler.  A dispatched body joins the mutex's
\* queue; a handler registered without the mutex runs now, to its end when it
\* awaits nothing, to its first await otherwise.
Deliver(ev) ==
    LET seq == delivered + 1 IN
    /\ delivered' = seq
    /\ overlapped' = IF ctxs = <<>> THEN overlapped
                      ELSE overlapped \cup {IF Dispatched(ev.kind) THEN "dispatched" ELSE "direct"}
    /\ IF Dispatched(ev.kind)
       THEN /\ queue' = Append(queue, [seq |-> seq, ev |-> ev])
            /\ refq' = Append(refq, RefEntry(seq, ev))
            /\ UNCHANGED <<ctxs, store, ref>>
       ELSE IF Suspends(ev.kind)
       THEN LET found == ev.msg.uuid \in fullUserList
                c0 == [NewCtx(ev, seq, store) EXCEPT !.serialized = FALSE]
                r == StartBody(c0, store, joiningRTC, localStreamData', localScreenData', found, userRole)
            IN /\ ctxs' = IF r.c.pc = "done" THEN ctxs ELSE Append(ctxs, r.c)
               /\ store' = r.s
               /\ LET q == Append(refq, RefEntry(seq, ev))
                      f == Flush(ref, IF r.c.pc = "done" THEN MarkDone(q, r.c) ELSE q, userRole)
                  IN ref' = f.ref /\ refq' = f.refq
               /\ UNCHANGED queue
       ELSE /\ store' = DirectHandler(store, ev, userRole)
            /\ LET f == Flush(ref, Append(refq, RefEntry(seq, ev)), userRole) IN
               ref' = f.ref /\ refq' = f.refq
            /\ UNCHANGED <<queue, ctxs>>
    /\ applied' = IF ev.kind = "classroom-property-updated"
                   THEN Append(applied, Applied("snapshot", ev.classroom)) ELSE applied
    /\ UNCHANGED <<locked, passVars, escaped, failures>>

\* the transport reports a change of the local main stream
Emit_LocalStreamUpdatedMain(D) ==
    /\ Listening /\ arrived < MaxEvents
    /\ UNCHANGED <<localScreenData, fullStreamList, fullUserList, serverVars,
                   userRole, joiningRTC, procVars, stageHist>>
    /\ \E d \in D : localStreamData' = d
    /\ Deliver(Event("local-stream-updated", "main"))
    /\ arrived' = arrived + 1

\* the transport reports a change of the local screen stream
Emit_LocalStreamUpdatedScreen ==
    /\ Listening /\ arrived < MaxEvents
    /\ UNCHANGED <<localStreamData, fullStreamList, fullUserList, serverVars,
                   userRole, joiningRTC, procVars, stageHist>>
    /\ \E d \in ScreenData : localScreenData' = d
    /\ Deliver(Event("local-stream-updated", "screen"))
    /\ arrived' = arrived + 1

\* the transport reports that a local stream is gone
Emit_LocalStreamRemoved(T) ==
    /\ Listening /\ arrived < MaxEvents
    /\ \E type \in T :
          /\ localStreamData' = IF type = "main" THEN NoStreamData ELSE localStreamData
          /\ localScreenData' = IF type = "screen" THEN NoStreamData ELSE localScreenData
          /\ Deliver(Event("local-stream-removed", type))
    /\ arrived' = arrived + 1
    /\ UNCHANGED <<fullStreamList, fullUserList, serverVars,
                   userRole, joiningRTC, procVars, stageHist>>

\* a peer message arrives
Emit_UserMessage(M) ==
    /\ Listening /\ arrived < MaxEvents
    /\ UNCHANGED <<transportVars, serverVars, userRole, joiningRTC, procVars, stageHist>>
    /\ \E m \in M : Deliver([Event("user-message", "") EXCEPT !.msg = m])
    /\ arrived' = arrived + 1

\* a remote user joins, changes or leaves
Emit_RemoteUser ==
    /\ Listening /\ arrived < MaxEvents
    /\ UNCHANGED <<localStreamData, localScreenData>>
    /\ \E k \in RemoteUserKinds, u \in Users :
          /\ fullUserList' = CASE k = "remote-user-added" -> fullUserList \cup {u}
                               [] k = "remote-user-removed" -> fullUserList \ {u}
                               [] OTHER -> fullUserList
          /\ Deliver([Event(k, "") EXCEPT !.list = fullUserList'])
    /\ arrived' = arrived + 1
    /\ UNCHANGED <<fullStreamList, serverVars, userRole, joiningRTC, procVars, stageHist>>

\* a student raises the hand or takes it back: a peer message with cmd 1
HandRaises == {Command(1, a, u) : a \in {"Apply", "Cancel"}, u \in Users}

Emit_HandRaise ==
    /\ Listening /\ arrived < MaxHandRaises
    /\ UNCHANGED <<transportVars, serverVars, userRole, joiningRTC, procVars, stageHist>>
    /\ \E m \in HandRaises : Deliver([Event("user-message", "") EXCEPT !.msg = m])
    /\ arrived' = arrived + 1

\* a remote stream is added, changed or removed
Emit_RemoteStream(K) ==
    /\ Listening /\ arrived < MaxEvents
    /\ UNCHANGED <<localStreamData, localScreenData>>
    /\ \E k \in K, id \in {"camera", "screen"} :
          /\ fullStreamList' = CASE k = "remote-stream-added" -> fullStreamList \cup {id}
                                 [] k = "remote-stream-removed" -> fullStreamList \ {id}
                                 [] OTHER -> fullStreamList
          /\ Deliver([Event(k, "") EXCEPT !.list = fullStreamList'])
    /\ arrived' = arrived + 1
    /\ UNCHANGED <<fullUserList, serverVars, userRole, joiningRTC, procVars, stageHist>>

\* the room service's view of the room, as classroom-property-updated carries it
Classroom == [roomProperties |-> serverProps, roomStatus |-> serverStatus]

\* someone else in the room starts or stops the recording or the class
RoomChanged ==
    /\ arrived < MaxEvents /\ leavePc # "left"
    /\ \/ \E r \in {0, 1} : serverProps' = [serverProps EXCEPT !.record = r] /\ UNCHANGED serverStatus
       \/ \E cs \in {0, 1} : /\ cs # serverStatus.courseState
                             /\ serverStatus' = [serverStatus EXCEPT !.courseState = cs, !.startTime = arrived + 1]
                             /\ UNCHANGED serverProps
    /\ inflight' = IF joinPc \in {"init", "fetchRoom", "login", "roomJoin"} THEN inflight
                   ELSE Append(inflight, [roomProperties |-> serverProps', roomStatus |-> serverStatus'])
    /\ arrived' = arrived + 1
    /\ UNCHANGED <<transportVars, serverStreams, userRole, joiningRTC, store, mutexVars,
                   procVars, delivered, applied, failures, escaped, overlapped, passVars, refVars, stageHist>>

\* the next snapshot in flight reaches the classroom-property-updated handler
Emit_ClassroomPropertyUpdated ==
    /\ Listening /\ inflight # <<>>
    /\ inflight' = Tail(inflight)
    /\ UNCHANGED <<transportVars, serverProps, serverStatus, serverStreams, arrived,
                   userRole, joiningRTC, procVars, stageHist>>
    /\ Deliver([Event("classroom-property-updated", "") EXCEPT !.classroom = Head(inflight)])

\* ------------------------------------------------------------------ the mutex
\* sceneStore.mutex.dispatch: the bodies run one at a time in the order they
\* were dispatched; the lock is released when a body returns or throws

RemoveAt(seq, i) == [j \in 1..(Len(seq) - 1) |-> IF j < i THEN seq[j] ELSE seq[j + 1]]

\* The body i of cs has run to c.  When it has returned or thrown, dispatch
\* releases the lock, an exception that the body did not catch has left it,
\* and the reference run takes the task; track says whether the finished
\* pass is kept in lastPass / prevPass.
Settle(cs, i, c0, s, track) ==
    LET c == [c0 EXCEPT !.after = <<s.cameraOpen, s.micOpen>>]
        f == Flush(ref, MarkDone(refq, c), userRole)
    IN IF c.pc # "done"
       THEN /\ ctxs' = [cs EXCEPT ![i] = c0]
            /\ UNCHANGED <<locked, escaped, passVars, refVars>>
       ELSE /\ ctxs' = RemoveAt(cs, i)
            /\ locked' = IF c.serialized THEN FALSE ELSE locked
            /\ escaped' = IF c.failed = "escaped" THEN escaped + 1 ELSE escaped
            /\ prevPass' = IF track THEN lastPass ELSE prevPass
            /\ lastPass' = IF track THEN c ELSE lastPass
            /\ ref' = f.ref
            /\ refq' = f.refq

\* the mutex takes the lock and starts the body at the head of its queue
MutexRun(track) ==
    /\ ~locked /\ queue # <<>>
    /\ queue' = Tail(queue)
    /\ LET t == Head(queue)
           found == t.ev.msg.uuid \in fullUserList
           r == StartBody(NewCtx(t.ev, t.seq, store), store, joiningRTC,
                          localStreamData, localScreenData, found, userRole)
       IN /\ store' = r.s
          /\ IF r.c.pc = "done"
             THEN Settle(Append(ctxs, r.c), Len(ctxs) + 1, r.c, r.s, track)
             ELSE /\ ctxs' = Append(ctxs, r.c)
                  /\ locked' = TRUE
                  /\ UNCHANGED <<escaped, passVars, refVars>>
    /\ UNCHANGED <<transportVars, serverVars, userRole, joiningRTC, procVars,
                   arrived, delivered, applied, failures, overlapped, stageHist>>

\* the call a body awaits answers (an answer of outs) and the body runs on to
\* its next await, or to its end
TaskResume(outs, track) ==
    /\ \E i \in DOMAIN ctxs : \E out \in Answers(ctxs[i].pc) \cap outs :
          /\ out = "fail" => failures < MaxFailures
          /\ failures' = IF out = "fail" THEN failures + 1 ELSE failures
          /\ LET r == ResumeBody(ctxs[i], store, joiningRTC, out) IN
                /\ store' = r.s
                /\ Settle(ctxs, i, r.c, r.s, track)
    /\ UNCHANGED <<transportVars, serverVars, userRole, joiningRTC, queue, procVars,
                   arrived, delivered, applied, overlapped, stageHist>>

\* ------------------------------------------------------------------ join and leave
\* the local user: the teacher, or the student u1
LocalUser == IF userRole = "teacher" THEN "t" ELSE "u1"

\* join(): the classroom info is read once (roomInfo); roomProperties and
\* startTime are set from it
JoinRead(s, info) ==
    [s EXCEPT !.roomProperties = info.roomProperties,
              !.startTime = info.roomStatus.startTime]

\* join() after the student's record: classState and isMuted are set from
\* the roomInfo read before, and the timer starts when that class state is 1
JoinStatus(s, info) ==
    LET s1 == [s EXCEPT !.classState = info.roomStatus.courseState]
        s2 == IF s1.classState = 1 THEN AddInterval(s1) ELSE s1
    IN [s2 EXCEPT !.isMuted = ~info.roomStatus.isStudentChatAllowed]

\* the update that writes students.<uuid>, with reward 0, for a student
\* without a record
StudentRecord(tree, u) == [tree EXCEPT !.students = @ \cup {u}, !.reward[u] = 0]

\* variant: a student writes the students.<uuid> record at every join
Join_enterAlwaysWrites ==
    /\ joinPc \in {"init", "roomJoin"}
    /\ joinPc' = "entered"
    /\ roomInfo' = Classroom
    /\ LET init == userRole = "student" IN
          /\ store' = JoinStatus(JoinRead([store EXCEPT !.loading = TRUE], Classroom), Classroom)
          /\ ref' = store'
          /\ serverProps' = IF init THEN StudentRecord(serverProps, LocalUser) ELSE serverProps
          /\ inflight' = IF init
                         THEN Append(inflight, [roomProperties |-> serverProps', roomStatus |-> serverStatus])
                         ELSE inflight
    /\ applied' = Append(applied, Applied("join", Classroom))
    /\ UNCHANGED <<transportVars, serverStatus, serverStreams, userRole, joiningRTC, mutexVars,
                   leavePc, cmd, arrived, delivered, failures, escaped, overlapped,
                   passVars, refq, stageHist>>

\* join() from its start to the call of joinRTC, when no notification is
\* handled while it awaits: the handlers are registered, the room is entered,
\* the room's properties and status are read, a student without a
\* students.<uuid> record writes one, and the timer starts when the class is
\* running
Join_enter ==
    /\ joinPc \in {"init", "roomJoin"}
    /\ joinPc' = "entered"
    /\ roomInfo' = Classroom
    /\ LET init == userRole = "student" /\ LocalUser \notin serverProps.students IN
          /\ store' = JoinStatus(JoinRead([store EXCEPT !.loading = TRUE], Classroom), Classroom)
          /\ ref' = store'
          /\ serverProps' = IF init THEN StudentRecord(serverProps, LocalUser) ELSE serverProps
          /\ inflight' = IF init
                         THEN Append(inflight, [roomProperties |-> serverProps', roomStatus |-> serverStatus])
                         ELSE inflight
    /\ applied' = Append(applied, Applied("join", Classroom))
    /\ UNCHANGED <<transportVars, serverStatus, serverStreams, userRole, joiningRTC, mutexVars,
                   leavePc, cmd, arrived, delivered, failures, escaped, overlapped,
                   passVars, refq, stageHist>>

\* join() of a student without a record, from its start to the await of the
\* update that writes the record: the handlers are registered, roomInfo is
\* read, and the room service applies the update and sends the snapshot
Join_read ==
    /\ joinPc \in {"init", "roomJoin"}
    /\ userRole = "student" /\ LocalUser \notin serverProps.students
    /\ joinPc' = "studentInit"
    /\ roomInfo' = Classroom
    /\ store' = JoinRead([store EXCEPT !.loading = TRUE], Classroom)
    /\ ref' = store'
    /\ serverProps' = StudentRecord(serverProps, LocalUser)
    /\ inflight' = Append(inflight, [roomProperties |-> serverProps', roomStatus |-> serverStatus])
    /\ UNCHANGED <<transportVars, serverStatus, serverStreams, userRole, joiningRTC, mutexVars,
                   leavePc, cmd, arrived, delivered, applied, failures, escaped, overlapped,
                   passVars, refq, stageHist>>

\* join() resumes after the update and goes on to the call of joinRTC
Join_status ==
    /\ joinPc = "studentInit"
    /\ joinPc' = "entered"
    /\ store' = JoinStatus(store, roomInfo)
    /\ ref' = JoinStatus(ref, roomInfo)
    /\ applied' = Append(applied, Applied("join", roomInfo))
    /\ UNCHANGED <<transportVars, serverVars, userRole, joiningRTC, mutexVars,
                   leavePc, cmd, roomInfo, arrived, delivered, failures, escaped, overlapped,
                   passVars, refq, stageHist>>

\* join(): sceneStore.joinRTC attaches the session to the media transport
Join_joinRTC ==
    /\ joinPc = "entered" /\ leavePc = "idle"
    /\ joinPc' = "attached"
    /\ joiningRTC' = TRUE
    /\ UNCHANGED <<transportVars, serverVars, userRole, store, mutexVars, leavePc, cmd, roomInfo,
                   arrived, delivered, applied, failures, escaped, overlapped, passVars, refVars, stageHist>>

\* record.recordId of a tree
RecordId(tree) == IF tree.record = -1 THEN "" ELSE "rec"

\* join() after the board is initialised, to its end: the record id is read
\* from the room's properties, the user and stream lists from the transport,
\* a session that is not the teacher's sets sharing from the stream list, the
\* loading indicator stops and joined is set
JoinFinish(s, role) ==
    LET s1 == [s EXCEPT !.recordId = RecordId(serverProps),
                        !.userList = fullUserList, !.streamList = fullStreamList]
        s2 == IF role # "teacher" THEN [s1 EXCEPT !.sharing = ("screen" \in fullStreamList)] ELSE s1
    IN [s2 EXCEPT !.loading = FALSE, !.joined = TRUE]

Join_recordId ==
    /\ joinPc \in {"attached", "boardInit"} /\ leavePc = "idle"
    /\ joinPc' = "joined"
    /\ store' = JoinFinish(store, userRole)
    /\ ref' = JoinFinish(ref, userRole)
    /\ UNCHANGED <<transportVars, serverVars, userRole, joiningRTC, mutexVars, leavePc, cmd, roomInfo,
                   arrived, delivered, applied, failures, escaped, overlapped, passVars, refq, stageHist>>

\* join() from its start to the await of fetchRoom: the loading indicator
\* starts
Join_start ==
    /\ joinPc = "init"
    /\ joinPc' = "fetchRoom"
    /\ store' = [store EXCEPT !.loading = TRUE]
    /\ ref' = [ref EXCEPT !.loading = TRUE]
    /\ UNCHANGED <<transportVars, serverVars, userRole, joiningRTC, mutexVars, leavePc, cmd, roomInfo,
                   arrived, delivered, applied, failures, escaped, overlapped, passVars, refq, stageHist>>

\* join(): fetchRoom answers and login is awaited; login answers, the
\* handlers are registered and roomManager.join is awaited
Join_step ==
    /\ joinPc \in {"fetchRoom", "login"}
    /\ joinPc' = IF joinPc = "fetchRoom" THEN "login" ELSE "roomJoin"
    /\ UNCHANGED <<transportVars, serverVars, userRole, joiningRTC, store, mutexVars, leavePc, cmd,
                   roomInfo, arrived, delivered, applied, failures, escaped, overlapped, passVars,
                   refVars, stageHist>>

\* the stream that publishStream publishes: hasVideo / hasAudio of the local
\* descriptor, true when it has none
PublishedStream(lsd) ==
    [present |-> TRUE,
     hasVideo |-> IF lsd.present THEN lsd.hasVideo ELSE TRUE,
     hasAudio |-> IF lsd.present THEN lsd.hasAudio ELSE TRUE]

\* join() after joinRTC: the teacher, and a student whose local stream is
\* online, publish the main stream; the others go on to the board
Join_afterRTC ==
    /\ joinPc = "attached" /\ leavePc = "idle"
    /\ joinPc' = IF userRole = "teacher" \/ (localStreamData.present /\ localStreamData.state # 0)
                 THEN "publish" ELSE "boardInit"
    /\ UNCHANGED <<transportVars, serverVars, userRole, joiningRTC, store, mutexVars, leavePc, cmd,
                   roomInfo, arrived, delivered, applied, failures, escaped, overlapped, passVars,
                   refVars, stageHist>>

\* join(): publishStream answers; the published stream is cached
Join_published ==
    /\ joinPc = "publish"
    /\ joinPc' = "devices"
    /\ store' = [store EXCEPT !.cameraEduStream = PublishedStream(localStreamData)]
    /\ ref' = [ref EXCEPT !.cameraEduStream = PublishedStream(localStreamData)]
    /\ UNCHANGED <<transportVars, serverVars, userRole, joiningRTC, mutexVars, leavePc, cmd, roomInfo,
                   arrived, delivered, applied, failures, escaped, overlapped, passVars, refq, stageHist>>

\* the first n device calls of join()'s pass: prepareCamera, prepareMicrophone,
\* open or close the camera by hasVideo, open or close the microphone by
\* hasAudio of the cached stream
JoinDevices(s, cam, mic, n) ==
    LET e == s.cameraEduStream
        s1 == IF n >= 1 THEN PrepareCamera(s, cam) ELSE s
        s2 == IF n >= 2 THEN PrepareMicrophone(s1, mic) ELSE s1
        s3 == IF n >= 3 /\ e.present
              THEN CameraCall(s2, IF e.hasVideo THEN "open" ELSE "close") ELSE s2
    IN IF n >= 4 /\ e.present
       THEN MicrophoneCall(s3, IF e.hasAudio THEN "open" ELSE "close") ELSE s3

\* join(): the device pass runs to its end
Join_devices ==
    /\ joinPc = "devices"
    /\ joinPc' = "boardInit"
    /\ \E cam, mic \in {"yes", "no"} :
          /\ store' = JoinDevices(store, cam, mic, 4)
          /\ ref' = JoinDevices(ref, cam, mic, 4)
    /\ UNCHANGED <<transportVars, serverVars, userRole, joiningRTC, mutexVars, leavePc, cmd, roomInfo,
                   arrived, delivered, applied, failures, escaped, overlapped, passVars, refq, stageHist>>

\* the call of the device pass that join() awaits answers: the store takes
\* the answer
JoinPassAnswer(s, pc, out) ==
    CASE pc = "devices" -> PrepareCamera(s, out)
      [] pc = "devices.prepareMicrophone" -> PrepareMicrophone(s, out)
      [] pc = "devices.openCamera" -> CameraCall(s, "open")
      [] pc = "devices.closeCamera" -> CameraCall(s, "close")
      [] pc = "devices.openMicrophone" -> MicrophoneCall(s, "open")
      [] OTHER -> MicrophoneCall(s, "close")

\* the call that the pass makes next, by the cached stream as it is then
JoinPassNext(s, pc) ==
    LET e == s.cameraEduStream IN
    CASE pc = "devices" -> "devices.prepareMicrophone"
      [] pc = "devices.prepareMicrophone" ->
            IF ~e.present THEN "boardInit"
            ELSE IF e.hasVideo THEN "devices.openCamera" ELSE "devices.closeCamera"
      [] pc \in {"devices.openCamera", "devices.closeCamera"} ->
            IF e.present /\ e.hasAudio THEN "devices.openMicrophone" ELSE "devices.closeMicrophone"
      [] OTHER -> "boardInit"

\* join(): one awaited call of the device pass answers and the pass goes on
\* to its next call; the handlers' tasks run while the pass is suspended
Join_deviceAnswered ==
    /\ joinPc \in JoinPassAwaits
    /\ \E out \in {"yes", "no"} :
          /\ store' = JoinPassAnswer(store, joinPc, out)
          /\ ref' = JoinPassAnswer(ref, joinPc, out)
    /\ joinPc' = JoinPassNext(store', joinPc)
    /\ UNCHANGED <<transportVars, serverVars, userRole, joiningRTC, mutexVars, leavePc, cmd, roomInfo,
                   arrived, delivered, applied, failures, escaped, overlapped, passVars, refq, stageHist>>

\* join(): the awaited call of the device pass rejects; the inner catch shows
\* a toast and join() goes on to the board
Join_deviceRejected ==
    /\ joinPc \in JoinPassAwaits
    /\ failures < MaxFailures
    /\ failures' = failures + 1
    /\ joinPc' = "boardInit"
    /\ UNCHANGED <<transportVars, serverVars, userRole, joiningRTC, store, mutexVars, leavePc, cmd,
                   roomInfo, arrived, delivered, applied, escaped, overlapped, passVars, refVars,
                   stageHist>>

\* variant: a failed device call ends join() like any other failed step
Join_devicesFailedRethrown ==
    /\ joinPc = "devices"
    /\ failures < MaxFailures
    /\ failures' = failures + 1
    /\ joinPc' = "failed"
    /\ \E cam, mic \in {"yes", "no"}, n \in 0..3 :
          /\ store' = [JoinDevices(store, cam, mic, n) EXCEPT !.loading = FALSE]
          /\ ref' = [JoinDevices(ref, cam, mic, n) EXCEPT !.loading = FALSE]
    /\ UNCHANGED <<transportVars, serverVars, userRole, joiningRTC, mutexVars, leavePc, cmd, roomInfo,
                   arrived, delivered, applied, escaped, overlapped, passVars, refq, stageHist>>

\* join(): the device call after the first n rejects; the inner catch shows a
\* toast and join() goes on to the board
Join_devicesFailed ==
    /\ joinPc = "devices"
    /\ failures < MaxFailures
    /\ failures' = failures + 1
    /\ joinPc' = "boardInit"
    /\ \E cam, mic \in {"yes", "no"}, n \in 0..3 :
          /\ store' = JoinDevices(store, cam, mic, n)
          /\ ref' = JoinDevices(ref, cam, mic, n)
    /\ UNCHANGED <<transportVars, serverVars, userRole, joiningRTC, mutexVars, leavePc, cmd, roomInfo,
                   arrived, delivered, applied, escaped, overlapped, passVars, refq, stageHist>>

\* the remote steps that join() awaits outside the inner try block: fetchRoom,
\* login, roomManager.join, the student's property update, joinRTC,
\* publishStream and boardStore.init
JoinAwaits == {"fetchRoom", "login", "roomJoin", "studentInit", "entered", "publish", "boardInit"}

\* join(): the step it awaits rejects; the catch block stops the loading
\* indicator and throws the error again
Join_rejected ==
    /\ joinPc \in JoinAwaits
    /\ failures < MaxFailures
    /\ failures' = failures + 1
    /\ joinPc' = "failed"
    /\ store' = [store EXCEPT !.loading = FALSE]
    /\ ref' = [ref EXCEPT !.loading = FALSE]
    /\ UNCHANGED <<transportVars, serverVars, userRole, joiningRTC, mutexVars, leavePc, cmd, roomInfo,
                   arrived, delivered, applied, escaped, overlapped, passVars, refq, stageHist>>

\* ------------------------------------------------------------------ leave
\* sceneStore.reset(): the fields of sceneStore go back to their first values
SceneReset(s) ==
    [s EXCEPT !.cameraEduStream = NoEduStream, !.screenEduStream = NoEduStream,
              !.sharing = FALSE, !.hasCamera = FALSE, !.hasMicrophone = FALSE,
              !.cameraOpen = FALSE, !.micOpen = FALSE,
              !.userList = {}, !.streamList = {},
              !.recordState = FALSE, !.recordId = "",
              !.classState = 0, !.startTime = 0, !.isMuted = FALSE]

\* reset(): sceneStore is reset; the chat log, the notice and quit are cleared
Reset(s) ==
    [SceneReset(s) EXCEPT !.roomChatMessages = <<>>, !.notice = NoNotice, !.quit = FALSE]

\* leave(): joiningRTC is set, then leaveRtc is called
Leave_begin ==
    /\ joinPc \in {"attached", "joined"} /\ leavePc = "idle"
    /\ leavePc' = "leaveRtc"
    /\ joiningRTC' = TRUE
    /\ UNCHANGED <<transportVars, serverVars, userRole, store, mutexVars, joinPc, cmd, roomInfo,
                   arrived, delivered, applied, failures, escaped, overlapped, passVars, refVars, stageHist>>

\* leave(): leaveRtc detaches the session from the media transport
Leave_leaveRtc ==
    /\ leavePc = "leaveRtc"
    /\ leavePc' = "boardLeave"
    /\ joiningRTC' = FALSE
    /\ UNCHANGED <<transportVars, serverVars, userRole, store, mutexVars, joinPc, cmd, roomInfo,
                   arrived, delivered, applied, failures, escaped, overlapped, passVars, refVars, stageHist>>

\* leave(): boardStore.leave() and eduManager.logout() are done
Leave_step ==
    /\ leavePc \in {"boardLeave", "logout"}
    /\ leavePc' = IF leavePc = "boardLeave" THEN "logout" ELSE "roomLeave"
    /\ UNCHANGED <<transportVars, serverVars, userRole, joiningRTC, store, mutexVars, joinPc, cmd,
                   roomInfo, arrived, delivered, applied, failures, escaped, overlapped, passVars,
                   refVars, stageHist>>

\* leave(): roomManager.leave() is done; the timer is removed and the session
\* is reset
Leave_roomLeave ==
    /\ leavePc = "roomLeave"
    /\ leavePc' = "left"
    /\ store' = Reset(DelInterval(store))
    /\ ref' = Reset(DelInterval(ref))
    /\ UNCHANGED <<transportVars, serverVars, userRole, joiningRTC, mutexVars, joinPc, cmd,
                   roomInfo, arrived, delivered, applied, failures, escaped, overlapped, passVars,
                   refq, stageHist>>

\* leave(): the step it awaits rejects; the catch block resets the session
\* and leave() returns
Leave_rejected ==
    /\ leavePc \in {"leaveRtc", "boardLeave", "logout", "roomLeave"}
    /\ failures < MaxFailures
    /\ failures' = failures + 1
    /\ leavePc' = "left"
    /\ store' = Reset(store)
    /\ ref' = Reset(ref)
    /\ UNCHANGED <<transportVars, serverVars, userRole, joiningRTC, mutexVars, joinPc, cmd,
                   roomInfo, arrived, delivered, applied, escaped, overlapped, passVars,
                   refq, stageHist>>

\* the joins that have read the room so far
Joins == {i \in 1..Len(applied) : applied[i].by = "join"}

\* join() is called again after leave() has returned: the snapshots that were
\* on their way to the session that left are not delivered
Rejoin ==
    /\ leavePc = "left" /\ Cardinality(Joins) < MaxJoins
    /\ joinPc' = "init"
    /\ leavePc' = "idle"
    /\ inflight' = <<>>
    /\ UNCHANGED <<transportVars, serverProps, serverStatus, serverStreams, userRole, joiningRTC,
                   store, mutexVars, cmd, roomInfo, arrived, delivered, applied, failures, escaped,
                   overlapped, passVars, refVars, stageHist>>

\* the teacher, in another session, gives a student with a record a reward
RewardChanged ==
    /\ arrived < MaxEvents /\ leavePc # "left"
    /\ arrived' = arrived + 1
    /\ \E u \in serverProps.students \cap Students :
          serverProps' = [serverProps EXCEPT !.reward[u] = @ + 1]
    /\ inflight' = IF joinPc \in {"init", "fetchRoom", "login", "roomJoin"} THEN inflight
                   ELSE Append(inflight, [roomProperties |-> serverProps', roomStatus |-> serverStatus])
    /\ UNCHANGED <<transportVars, serverStatus, serverStreams, userRole, joiningRTC, store, mutexVars,
                   procVars, delivered, applied, failures, escaped, overlapped, passVars, refVars, stageHist>>

\* ------------------------------------------------------------------ the stage
\* the room service sets the named paths of the tree
ApplyPatch(tree, p) ==
    [tree EXCEPT !.g1 = IF p.g1 = "keep" THEN @ ELSE p.g1,
                 !.g2 = IF p.g2 = "keep" THEN @ ELSE p.g2,
                 !.groupsState = IF p.groupsState = -1 THEN @ ELSE p.groupsState,
                 !.interactInGroup = IF p.interactInGroup = -1 THEN @ ELSE p.interactInGroup,
                 !.interactOutGroup = IF p.interactOutGroup = -1 THEN @ ELSE p.interactOutGroup,
                 !.groups = IF p.setGroups THEN p.groups ELSE @,
                 !.reward = [u \in Students |-> IF p.reward[u] = -1 THEN @[u] ELSE p.reward[u]]]

\* the members of a group, as groupOnSave numbers the groups
GroupMembers(g) ==
    CASE g = "group_id_1" -> {"u1", "u2"}
      [] g = "group_id_2" -> {"u3"}
      [] g = "group_id_3" -> {"u4"}
      [] OTHER -> {}

\* platformState: the stage slots of the local roomProperties
PlatformState(s) == [g1 |-> s.roomProperties.g1, g2 |-> s.roomProperties.g2]

\* clickPlatform, the group is on stage: the update that takes it off, and
\* clears the out-of-group flag when the other slot is empty
OffStagePatch(ps, id) ==
    LET t == IF ps.g1 = id THEN "g1" ELSE "g2"
        last == (t = "g1" /\ ps.g2 = "") \/ (t = "g2" /\ ps.g1 = "")
    IN [NoPatch EXCEPT !.g1 = IF t = "g1" THEN "" ELSE "keep",
                       !.g2 = IF t = "g2" THEN "" ELSE "keep",
                       !.interactOutGroup = IF last THEN 0 ELSE -1]

\* variant: the free slot is looked for from g2
OnStagePatchFromG2(ps, id) ==
    LET t == IF ps.g2 = "" THEN "g2" ELSE "g1" IN
    [NoPatch EXCEPT !.g1 = IF t = "g1" THEN id ELSE "keep",
                    !.g2 = IF t = "g2" THEN id ELSE "keep",
                    !.groupsState = 1, !.interactInGroup = 0, !.interactOutGroup = 1]

\* clickPlatform, the group goes on stage: g1 when it is empty, g2 otherwise
OnStagePatch(ps, id) ==
    LET t == IF ps.g1 = "" THEN "g1" ELSE "g2" IN
    [NoPatch EXCEPT !.g1 = IF t = "g1" THEN id ELSE "keep",
                    !.g2 = IF t = "g2" THEN id ELSE "keep",
                    !.groupsState = 1, !.interactInGroup = 0, !.interactOutGroup = 1]

\* the remote calls of the facade
UpsertCall(g) ==
    [NoCall EXCEPT !.name = "batchUpsertStream", !.members = GroupMembers(g),
                   !.videoState = 1, !.audioState = 1]
DeleteCall(g) == [NoCall EXCEPT !.name = "batchDeleteStream", !.members = GroupMembers(g)]
UpdateCall(p) == [NoCall EXCEPT !.name = "updateRoomBatchProperties", !.patch = p]

\* the commands issued so far
Issued == clicks + saves.groupOnSave + saves.removeGroup + Len(stars)

Commanding == joinPc # "init" /\ leavePc = "idle" /\ userRole = "teacher"

\* a command starts: its argument, the local roomProperties it sees, and
\* whether every snapshot sent so far has been handled
NewCmd(name, id, s) ==
    [NoCmd EXCEPT !.name = name, !.group = id, !.before = s.roomProperties,
                  !.synced = (inflight = <<>>)]

\* the room service applies an update and sends the snapshot to the session
Updated(p) ==
    /\ Len(inflight) < MaxInflight
    /\ serverProps' = ApplyPatch(serverProps, p)
    /\ inflight' = Append(inflight, [roomProperties |-> serverProps', roomStatus |-> serverStatus])

\* clickPlatform(group) up to its first await: off stage when the group is in
\* a slot, nothing when both slots are taken, on stage otherwise
ClickPlatform(s, id) ==
    LET ps == PlatformState(s)
        c == NewCmd("clickPlatform", id, s)
    IN IF ps.g1 = id \/ ps.g2 = id
       THEN [c EXCEPT !.pc = "off.update", !.branch = "off", !.patch = OffStagePatch(ps, id)]
       ELSE IF ps.g1 # "" /\ ps.g2 # ""
       THEN [c EXCEPT !.branch = "full"]
       ELSE [c EXCEPT !.pc = "on.upsert", !.branch = "on"]

\* the call clickPlatform awaits first
FirstCall(c) ==
    CASE c.branch = "off" -> <<UpdateCall(c.patch)>>
      [] c.branch = "on" -> <<UpsertCall(c.group)>>
      [] OTHER -> <<>>

ClickPlatform_call ==
    /\ Commanding /\ cmd.pc = "idle" /\ Issued < MaxCommands /\ clicks < MaxClicks
    /\ clicks' = clicks + 1
    /\ \E id \in store.roomProperties.groups :
          /\ cmd' = ClickPlatform(store, id)
          /\ remoteCalls' = FirstCall(cmd')
    /\ UNCHANGED <<transportVars, serverVars, userRole, joiningRTC, store, mutexVars,
                   joinPc, leavePc, roomInfo, arrived, delivered, applied, failures, escaped,
                   overlapped, passVars, refVars, saves, stars>>

\* off stage: the property update is done, the stream batch delete is called
ClickPlatform_offUpdated ==
    /\ cmd.pc = "off.update"
    /\ Updated(cmd.patch)
    /\ cmd' = [cmd EXCEPT !.pc = "off.delete"]
    /\ remoteCalls' = Append(remoteCalls, DeleteCall(cmd.group))
    /\ UNCHANGED <<transportVars, serverStatus, serverStreams, userRole, joiningRTC, store,
                   mutexVars, joinPc, leavePc, roomInfo, arrived, delivered, applied, failures,
                   escaped, overlapped, passVars, refVars, clicks, saves, stars>>

\* off stage: the stream batch delete is done
ClickPlatform_offDeleted ==
    /\ cmd.pc = "off.delete"
    /\ serverStreams' = serverStreams \ GroupMembers(cmd.group)
    /\ cmd' = [cmd EXCEPT !.pc = "idle"]
    /\ UNCHANGED <<transportVars, serverProps, serverStatus, inflight, userRole, joiningRTC,
                   store, mutexVars, joinPc, leavePc, roomInfo, arrived, delivered, applied,
                   failures, escaped, overlapped, passVars, refVars, stageHist>>

\* on stage: the stream batch upsert is done; the slot is chosen from the
\* platformState of this moment and the property update is called
ClickPlatform_onUpserted ==
    /\ cmd.pc = "on.upsert"
    /\ serverStreams' = serverStreams \cup GroupMembers(cmd.group)
    /\ cmd' = [cmd EXCEPT !.pc = "on.update", !.patch = OnStagePatch(PlatformState(store), cmd.group)]
    /\ remoteCalls' = Append(remoteCalls, UpdateCall(cmd'.patch))
    /\ UNCHANGED <<transportVars, serverProps, serverStatus, inflight, userRole, joiningRTC,
                   store, mutexVars, joinPc, leavePc, roomInfo, arrived, delivered, applied,
                   failures, escaped, overlapped, passVars, refVars, clicks, saves, stars>>

\* on stage: the property update is done
ClickPlatform_onUpdated ==
    /\ cmd.pc = "on.update"
    /\ Updated(cmd.patch)
    /\ cmd' = [cmd EXCEPT !.pc = "idle"]
    /\ UNCHANGED <<transportVars, serverStatus, serverStreams, userRole, joiningRTC, store,
                   mutexVars, joinPc, leavePc, roomInfo, arrived, delivered, applied, failures,
                   escaped, overlapped, passVars, refVars, stageHist>>

AwaitsFirst(c) == c.pc \in {"off.update", "on.upsert"}
AwaitsSecond(c) == c.pc \in {"off.delete", "on.update"}

\* variant: a rejection of the first call is swallowed and the second call is
\* issued all the same
ClickPlatform_rejectedSwallowed ==
    /\ AwaitsFirst(cmd) \/ AwaitsSecond(cmd)
    /\ failures < MaxFailures
    /\ failures' = failures + 1
    /\ IF AwaitsFirst(cmd)
       THEN /\ cmd' = [cmd EXCEPT !.pc = IF cmd.pc = "off.update" THEN "off.delete" ELSE "on.update",
                                  !.failedAt = cmd.pc]
            /\ remoteCalls' = Append(remoteCalls, IF cmd.pc = "off.update" THEN DeleteCall(cmd.group)
                                                  ELSE UpdateCall(cmd.patch))
       ELSE /\ cmd' = [cmd EXCEPT !.pc = "idle", !.failedAt = cmd.pc]
            /\ UNCHANGED remoteCalls
    /\ UNCHANGED <<transportVars, serverVars, userRole, joiningRTC, store, mutexVars,
                   joinPc, leavePc, roomInfo, arrived, delivered, applied, escaped,
                   overlapped, passVars, refVars, clicks, saves, stars>>

\* the remote call that clickPlatform awaits rejects: nothing catches it, the
\* rest of clickPlatform is skipped and the rejection reaches the caller
ClickPlatform_rejected ==
    /\ AwaitsFirst(cmd) \/ AwaitsSecond(cmd)
    /\ failures < MaxFailures
    /\ failures' = failures + 1
    /\ cmd' = [cmd EXCEPT !.pc = "idle", !.failedAt = cmd.pc]
    /\ UNCHANGED <<transportVars, serverVars, userRole, joiningRTC, store, mutexVars,
                   joinPc, leavePc, roomInfo, arrived, delivered, applied, escaped,
                   overlapped, passVars, refVars, stageHist>>

\* the update of groupOnSave(groups) for n groups
GroupOnSavePatch(n) ==
    [NoPatch EXCEPT !.groupsState = 1, !.interactInGroup = 0, !.interactOutGroup = 0,
                    !.setGroups = TRUE,
                    !.groups = {g \in GroupIds : \E i \in 1..n : g = <<"group_id_1", "group_id_2", "group_id_3">>[i]}]

\* groupOnSave(groups) for n groups: the grouping state and the groups
GroupOnSave ==
    /\ Commanding /\ cmd.pc = "idle" /\ Issued < MaxCommands /\ saves.groupOnSave < MaxSaves
    /\ saves' = [saves EXCEPT !.groupOnSave = @ + 1]
    /\ \E n \in 2..3 :
          LET p == GroupOnSavePatch(n) IN
          /\ Updated(p)
          /\ cmd' = [NewCmd("groupOnSave", "", store) EXCEPT !.patch = p]
          /\ remoteCalls' = <<UpdateCall(p)>>
    /\ UNCHANGED <<transportVars, serverStatus, serverStreams, userRole, joiningRTC, store,
                   mutexVars, joinPc, leavePc, roomInfo, arrived, delivered, applied, failures,
                   escaped, overlapped, passVars, refVars, clicks, stars>>

\* the update of removeGroup(): the grouping state, interactOutGroups and the
\* groups are replaced by their empty values
RemoveGroupPatch ==
    [NoPatch EXCEPT !.groupsState = 0, !.interactInGroup = 0, !.interactOutGroup = 0,
                    !.g1 = "", !.g2 = "", !.setGroups = TRUE, !.groups = {}]

\* removeGroup()
RemoveGroup ==
    /\ Commanding /\ cmd.pc = "idle" /\ Issued < MaxCommands /\ saves.removeGroup < MaxRemoves
    /\ saves' = [saves EXCEPT !.removeGroup = @ + 1]
    /\ Updated(RemoveGroupPatch)
    /\ cmd' = [NewCmd("removeGroup", "", store) EXCEPT !.patch = RemoveGroupPatch]
    /\ remoteCalls' = <<UpdateCall(RemoveGroupPatch)>>
    /\ UNCHANGED <<transportVars, serverStatus, serverStreams, userRole, joiningRTC, store,
                   mutexVars, joinPc, leavePc, roomInfo, arrived, delivered, applied, failures,
                   escaped, overlapped, passVars, refVars, clicks, stars>>

\* ------------------------------------------------------------------ rewards
\* variant: the members' rewards are raised by two
RewardPatchByTwo(s, id) ==
    [NoPatch EXCEPT !.reward = [u \in Students |->
        IF u \in GroupMembers(id) THEN s.roomProperties.reward[u] + 2 ELSE -1]]

\* the update of addGroupStar(group): students.<uuid>.reward of every member
\* is set to the reward of the local view plus one
RewardPatch(s, id) ==
    [NoPatch EXCEPT !.reward = [u \in Students |->
        IF u \in GroupMembers(id) THEN s.roomProperties.reward[u] + 1 ELSE -1]]

\* addGroupStar(group)
AddGroupStar ==
    /\ Commanding /\ cmd.pc = "idle" /\ Issued < MaxCommands /\ Len(stars) < MaxStars
    /\ \E id \in store.roomProperties.groups :
          LET p == RewardPatch(store, id) IN
          /\ Updated(p)
          /\ cmd' = [NewCmd("addGroupStar", id, store) EXCEPT !.patch = p]
          /\ remoteCalls' = <<UpdateCall(p)>>
          /\ stars' = Append(stars, [name |-> "addGroupStar", group |-> id, user |-> ""])
    /\ UNCHANGED <<transportVars, serverStatus, serverStreams, userRole, joiningRTC, store,
                   mutexVars, joinPc, leavePc, roomInfo, arrived, delivered, applied, failures,
                   escaped, overlapped, passVars, refVars, clicks, saves>>

\* variant: sendReward also writes the new reward into the local roomProperties
SendRewardOptimistic ==
    /\ Commanding /\ cmd.pc = "idle" /\ Issued < MaxCommands /\ Len(stars) < MaxStars
    /\ \E u \in Students :
          LET reward == store.roomProperties.reward[u]
              p == [NoPatch EXCEPT !.reward[u] = reward + 1]
          IN /\ Updated(p)
             /\ store' = [store EXCEPT !.roomProperties.reward[u] = reward + 1]
             /\ cmd' = [NewCmd("sendReward", "", store) EXCEPT !.user = u, !.patch = p]
             /\ remoteCalls' = <<UpdateCall(p)>>
             /\ stars' = Append(stars, [name |-> "sendReward", group |-> "", user |-> u])
    /\ UNCHANGED <<transportVars, serverStatus, serverStreams, userRole, joiningRTC,
                   mutexVars, joinPc, leavePc, roomInfo, arrived, delivered, applied, failures,
                   escaped, overlapped, passVars, refVars, clicks, saves>>

\* sendReward(userUuid, reward), called with the reward the local view shows:
\* students.<uuid>.reward is set to reward + 1
SendReward ==
    /\ Commanding /\ cmd.pc = "idle" /\ Issued < MaxCommands /\ Len(stars) < MaxStars
    /\ \E u \in Students :
          LET reward == store.roomProperties.reward[u]
              p == [NoPatch EXCEPT !.reward[u] = reward + 1]
          IN /\ Updated(p)
             /\ cmd' = [NewCmd("sendReward", "", store) EXCEPT !.user = u, !.patch = p]
             /\ remoteCalls' = <<UpdateCall(p)>>
             /\ stars' = Append(stars, [name |-> "sendReward", group |-> "", user |-> u])
    /\ UNCHANGED <<transportVars, serverStatus, serverStreams, userRole, joiningRTC, store,
                   mutexVars, joinPc, leavePc, roomInfo, arrived, delivered, applied, failures,
                   escaped, overlapped, passVars, refVars, clicks, saves>>

\* ------------------------------------------------------------------ mute and unmute
\* an entry of sceneStore.studentStreams, and the users that have one
NoStream == [present |-> FALSE, video |-> FALSE, audio |-> FALSE]
MediaStream(v, a) == [present |-> TRUE, video |-> v, audio |-> a]
MuteUsers == {"u1", "u2"}
StudentStreams ==
    {f \in [MuteUsers -> {NoStream} \cup {MediaStream(v, a) : v, a \in BOOLEAN}] :
        Cardinality({u \in MuteUsers : f[u].present}) <= MaxStreams}

\* rawStudentsList: the student streams, then the student records that have
\* no stream, with audio and video false
RawStudentsList(streams, s) ==
    [u \in MuteUsers |->
        IF streams[u].present THEN streams[u]
        ELSE IF u \in s.roomProperties.students THEN MediaStream(FALSE, FALSE)
        ELSE NoStream]

GetMediaStreamBy(streams, s, u) == RawStudentsList(streams, s)[u]

\* +stream.video, +stream.audio
Bit(b) == IF b THEN 1 ELSE 0

MuteNames == {"unmuteVideo", "muteVideo", "unmuteAudio", "muteAudio"}

\* variant: the other bit is sent as on
MuteCallOtherOn(name, u, stream) ==
    [NoCall EXCEPT !.name = "batchUpsertStream", !.members = {u},
                   !.videoState = CASE name = "unmuteVideo" -> 1
                                    [] name = "muteVideo" -> 0
                                    [] OTHER -> 1,
                   !.audioState = CASE name = "unmuteAudio" -> 1
                                    [] name = "muteAudio" -> 0
                                    [] OTHER -> 1]

\* the stream batch of the four remote operations
MuteCall(name, u, stream) ==
    [NoCall EXCEPT !.name = "batchUpsertStream", !.members = {u},
                   !.videoState = CASE name = "unmuteVideo" -> 1
                                    [] name = "muteVideo" -> 0
                                    [] OTHER -> Bit(stream.video),
                   !.audioState = CASE name = "unmuteAudio" -> 1
                                    [] name = "muteAudio" -> 0
                                    [] OTHER -> Bit(stream.audio)]

\* unmuteVideo / muteVideo / unmuteAudio / muteAudio (userUuid, isLocal): the
\* local path goes to the device control of sceneStore; the remote path looks
\* the user up and upserts one stream, and a rejection leaves the command
Mute ==
    /\ joinPc # "init" /\ leavePc = "idle" /\ cmd.pc = "idle"
    /\ \E name \in MuteNames, u \in MuteUsers, isLocal \in BOOLEAN,
          streams \in StudentStreams, ok \in BOOLEAN :
          LET stream == GetMediaStreamBy(streams, store, u)
              remote == ~isLocal /\ stream.present
          IN /\ ~ok => remote
             /\ cmd' = [NewCmd(name, "", store) EXCEPT
                           !.user = u, !.streams = streams,
                           !.branch = IF isLocal THEN "local" ELSE "remote",
                           !.failedAt = IF ok THEN "" ELSE "batchUpsertStream"]
             /\ remoteCalls' = IF remote THEN <<MuteCall(name, u, stream)>> ELSE <<>>
             /\ serverStreams' = IF remote /\ ok THEN serverStreams \cup {u} ELSE serverStreams
    /\ UNCHANGED <<transportVars, serverProps, serverStatus, inflight, userRole, joiningRTC,
                   store, mutexVars, joinPc, leavePc, roomInfo, arrived, delivered, applied,
                   failures, escaped, overlapped, passVars, refVars, clicks, saves, stars>>

\* ------------------------------------------------------------------ specifications
SerialMessages == {Malformed, Command(1, "teacherAccept", "u2")}
SerialData == {OfflineData, OnlineData(TRUE, TRUE)}

\* the local stream notifications, the peer messages and the room's property
\* snapshots, while join() and leave() attach and detach the media transport
NextSerial ==
    \/ Join_enter
    \/ Join_joinRTC
    \/ Leave_begin
    \/ Leave_leaveRtc
    \/ Emit_LocalStreamUpdatedMain(SerialData)
    \/ Emit_LocalStreamUpdatedScreen
    \/ Emit_LocalStreamRemoved({"main"})
    \/ Emit_UserMessage(SerialMessages)
    \/ Emit_RemoteStream({"remote-stream-added"})
    \/ RoomChanged
    \/ Emit_ClassroomPropertyUpdated
    \/ MutexRun(FALSE)
    \/ TaskResume({"yes", "ok", "fail"}, FALSE)

SpecSerial == Init /\ [][NextSerial]_vars

\* the reconciliation passes of local-stream-updated (main)
NextRecon ==
    \/ Join_enter
    \/ Join_joinRTC
    \/ Leave_begin
    \/ Leave_leaveRtc
    \/ Emit_LocalStreamUpdatedMain(MainData)
    \/ MutexRun(TRUE)
    \/ TaskResume({"yes", "no", "ok", "fail"}, TRUE)

SpecRecon == Init /\ [][NextRecon]_vars

\* the teacher's stage commands and the snapshots that come back
NextStage ==
    \/ Join_enter
    \/ GroupOnSave
    \/ ClickPlatform_call
    \/ ClickPlatform_offUpdated
    \/ ClickPlatform_offDeleted
    \/ ClickPlatform_onUpserted
    \/ ClickPlatform_onUpdated
    \/ ClickPlatform_rejected
    \/ RemoveGroup
    \/ Emit_ClassroomPropertyUpdated

SpecStage == Init /\ [][NextStage]_vars

\* the teacher's reward commands and the snapshots
NextReward ==
    \/ Join_enter
    \/ GroupOnSave
    \/ AddGroupStar
    \/ SendReward
    \/ Emit_ClassroomPropertyUpdated

SpecReward == Init /\ [][NextReward]_vars

\* the three commands that write room properties, and the snapshots
NextLocal ==
    \/ Join_enter
    \/ GroupOnSave
    \/ AddGroupStar
    \/ SendReward
    \/ ClickPlatform_call
    \/ ClickPlatform_offUpdated
    \/ ClickPlatform_offDeleted
    \/ ClickPlatform_onUpserted
    \/ ClickPlatform_onUpdated
    \/ Emit_ClassroomPropertyUpdated

SpecLocal == Init /\ [][NextLocal]_vars

\* the room's record and class state change while join() runs and after it
NextRoom ==
    \/ Join_enter
    \/ Join_read
    \/ Join_status
    \/ Join_joinRTC
    \/ Join_recordId
    \/ RoomChanged
    \/ Emit_ClassroomPropertyUpdated

SpecRoom == Init /\ [][NextRoom]_vars

\* a session joins, the room changes, and the session leaves
NextLeave ==
    \/ Join_enter
    \/ Join_joinRTC
    \/ Join_recordId
    \/ RoomChanged
    \/ Emit_ClassroomPropertyUpdated
    \/ Leave_begin
    \/ Leave_leaveRtc
    \/ Leave_step
    \/ Leave_roomLeave
    \/ Leave_rejected

SpecLeave == Init /\ [][NextLeave]_vars

\* join() step by step, with the steps that can fail
NextJoin ==
    \/ Join_start
    \/ Join_step
    \/ Join_enter
    \/ Join_read
    \/ Join_status
    \/ Join_joinRTC
    \/ Join_afterRTC
    \/ Join_published
    \/ Join_devices
    \/ Join_devicesFailed
    \/ Join_recordId
    \/ Join_rejected
    \/ RoomChanged
    \/ Emit_ClassroomPropertyUpdated

SpecJoin == Init /\ [][NextJoin]_vars

\* join()'s device pass, call by call, and the local stream notifications
\* that arrive meanwhile
NextPass ==
    \/ Join_enter
    \/ Join_joinRTC
    \/ Join_afterRTC
    \/ Join_published
    \/ Join_deviceAnswered
    \/ Join_deviceRejected
    \/ Join_recordId
    \/ Emit_LocalStreamUpdatedMain(SerialData)
    \/ Emit_LocalStreamRemoved({"main"})
    \/ MutexRun(FALSE)
    \/ TaskResume({"yes", "ok", "fail"}, FALSE)

SpecPass == Init /\ [][NextPass]_vars

\* the notifications about the local screen stream and the remote streams
NextSharing ==
    \/ Join_enter
    \/ Join_joinRTC
    \/ Emit_LocalStreamUpdatedScreen
    \/ Emit_LocalStreamRemoved({"main", "screen"})
    \/ Emit_RemoteStream(RemoteStreamKinds)
    \/ MutexRun(FALSE)
    \/ TaskResume({"ok", "fail"}, FALSE)

SpecSharing == Init /\ [][NextSharing]_vars

PeerMessages ==
    {BadJson, Malformed}
        \cup {Command(c, a, "u2") : c \in {1, 2}, a \in {"Apply", "Cancel", "teacherAccept"}}

\* the peer messages and the users they name
NextMessage ==
    \/ Join_enter
    \/ Join_joinRTC
    \/ Emit_RemoteUser
    \/ Emit_UserMessage(PeerMessages)
    \/ MutexRun(TRUE)
    \/ TaskResume({"yes", "ok", "fail"}, TRUE)

SpecMessage == Init /\ [][NextMessage]_vars

\* the hand-raise messages and the users that enter and leave the room
NextHands ==
    \/ Join_enter
    \/ Join_joinRTC
    \/ Emit_RemoteUser
    \/ Emit_HandRaise
    \/ MutexRun(TRUE)

SpecHands == Init /\ [][NextHands]_vars

\* the mute and unmute operations, with and without the user's student record
NextMute ==
    \/ Join_enter
    \/ Emit_ClassroomPropertyUpdated
    \/ Mute

SpecMute == Init /\ [][NextMute]_vars

\* a session joins, is rewarded, leaves and joins again
NextRejoin ==
    \/ Join_enter
    \/ Join_read
    \/ Join_status
    \/ Join_joinRTC
    \/ RewardChanged
    \/ Emit_ClassroomPropertyUpdated
    \/ Leave_begin
    \/ Leave_leaveRtc
    \/ Leave_step
    \/ Leave_roomLeave
    \/ Rejoin

SpecRejoin == Init /\ [][NextRejoin]_vars

\* ------------------------------------------------------------------ properties
Range(f) == {f[i] : i \in DOMAIN f}
Actuations == {"openCamera", "closeCamera", "openMicrophone", "closeMicrophone"}
NoActuation(c) == \A i \in DOMAIN c.calls : c.calls[i] \notin Actuations
CallsOf(c, names) == SelectSeq(c.calls, LAMBDA x : x \in names)
LastIs(calls, name) == calls # <<>> /\ calls[Len(calls)] = name

\* a local-stream-updated (main) task that went past the guard
MainPass(c) == c.ev.kind = "local-stream-updated" /\ c.ev.type = "main" /\ c.guard
Online(d) == d.present /\ d.state # 0

\* no task is queued or in progress
Quiescent == queue = <<>> /\ ctxs = <<>>

RanOnArrival == delivered' # delivered /\ queue' = queue

\* the fields of the session that the dispatched bodies write
TaskWritten(s) ==
    <<s.cameraEduStream, s.screenEduStream, s.hasCamera, s.hasMicrophone,
      s.cameraOpen, s.micOpen, s.notice, s.applyUsers>>

C3_NoEscape == escaped = 0

\* the mutex starts the body at the head of its queue
MutexStarts == queue # <<>> /\ queue' = Tail(queue)

\* C4: a dispatched body that starts while joiningRTC is false returns at
\* once: the session's fields are unchanged, no body is left suspended on a
\* device call, no exception leaves it and the lock is free again.
C4_GuardNoOp ==
    [][(MutexStarts /\ ~joiningRTC) =>
          /\ store' = store
          /\ ctxs' = ctxs
          /\ escaped' = escaped
          /\ ~locked']_vars

\* the session entered the room and never attached; local-stream-updated
\* (main) arrived with an online descriptor and its task has run
C4_Witness ==
    /\ joinPc = "entered" /\ Online(localStreamData)
    /\ queue = <<>> /\ ~locked /\ delivered >= 1
    /\ store.cameraEduStream = NoEduStream

\* the last two passes ran one after the other on the same descriptor with
\* the same probe answers, both to their end, nothing in between
Twice ==
    /\ MainPass(prevPass) /\ MainPass(lastPass)
    /\ lastPass.desc = prevPass.desc
    /\ lastPass.camProbe = prevPass.camProbe /\ lastPass.micProbe = prevPass.micProbe
    /\ lastPass.attached = prevPass.attached
    /\ prevPass.failed = "no" /\ lastPass.failed = "no"
    /\ lastPass.before = prevPass.after

\* C5 as stated: the second of two such passes issues no open or close call.
C5_SecondRunSilent == Twice => NoActuation(lastPass)

\* C5, amended: the second pass issues the same device calls as the first
\* (open or close for every available device), and they leave the devices as
\* the first pass left them.
C5_SecondRunRepeats ==
    Twice => lastPass.calls = prevPass.calls /\ lastPass.after = lastPass.before

\* two such passes with both devices available, video on and audio off
C5_Witness ==
    /\ Twice /\ lastPass.attached = "yes"
    /\ lastPass.camProbe = "yes" /\ lastPass.micProbe = "yes"
    /\ lastPass.desc = OnlineData(TRUE, FALSE)
    /\ lastPass.calls = <<"prepareCamera", "prepareMicrophone", "openCamera", "closeMicrophone">>

\* a pass on an online descriptor that ran to its end while attached
Reconciled(c) == MainPass(c) /\ Online(c.desc) /\ c.attached = "yes" /\ c.failed = "no"

FollowsFlag(c, probe, flag, open, close) ==
    LET dc == CallsOf(c, {open, close}) IN
    IF probe = "yes" THEN LastIs(dc, IF flag THEN open ELSE close) ELSE dc = <<>>

\* C6: after a pass on an online descriptor that ran to its end while
\* attached, the last camera call is open when hasVideo holds and close when
\* it does not, the last microphone call follows hasAudio in the same way,
\* and a device whose probe answered "not available" got neither call.
C6_CallsFollowDescriptor ==
    Reconciled(lastPass) =>
        /\ FollowsFlag(lastPass, lastPass.camProbe, lastPass.desc.hasVideo, "openCamera", "closeCamera")
        /\ FollowsFlag(lastPass, lastPass.micProbe, lastPass.desc.hasAudio, "openMicrophone", "closeMicrophone")

\* a pass with the camera available and the microphone not, video off, audio on
C6_Witness ==
    /\ Reconciled(lastPass)
    /\ lastPass.camProbe = "yes" /\ lastPass.micProbe = "no"
    /\ lastPass.desc = OnlineData(FALSE, TRUE)
    /\ CallsOf(lastPass, Actuations) = <<"closeCamera">>

ProbesFirst(c) ==
    \A i \in DOMAIN c.calls :
        c.calls[i] \in Actuations =>
            /\ i > 2 /\ c.calls[1] = "prepareCamera" /\ c.calls[2] = "prepareMicrophone"
            /\ c.camProbe \in {"yes", "no"} /\ c.micProbe \in {"yes", "no"}
ProbeFailed(c) == c.failAt \in {"prepareCamera", "prepareMicrophone"}

\* C7: in every pass, finished or in progress, an open or close call comes
\* after both probes have answered; a pass in which a probe failed, or which
\* found joiningRTC false after the probes, issues no open or close call.
C7_ProbesBeforeCalls ==
    \A c \in {lastPass} \cup Range(ctxs) :
        MainPass(c) =>
            /\ ProbesFirst(c)
            /\ (ProbeFailed(c) \/ c.attached = "no") => NoActuation(c)

\* a pass whose probe failed, then a pass that found both devices available
\* and the session detached after the probes
C7_Witness ==
    /\ MainPass(prevPass) /\ ProbeFailed(prevPass)
    /\ MainPass(lastPass) /\ lastPass.attached = "no"
    /\ lastPass.camProbe = "yes" /\ lastPass.micProbe = "yes"

\* C8: a pass that finds the main descriptor absent or with state 0 issues no
\* device call and leaves the cached camera stream cleared.
C8_OfflineClearsCache ==
    (MainPass(lastPass) /\ ~Online(lastPass.desc)) =>
        /\ lastPass.calls = <<>> /\ lastPass.failed = "no"
        /\ ctxs = <<>> => store.cameraEduStream = NoEduStream

\* a pass cached the online stream, the next one found the descriptor offline
C8_Witness ==
    /\ MainPass(prevPass) /\ Online(prevPass.desc) /\ prevPass.failed = "no"
    /\ MainPass(lastPass) /\ ~Online(lastPass.desc) /\ lastPass.seq > prevPass.seq
    /\ ctxs = <<>> /\ store.cameraEduStream = NoEduStream

\* C9 as stated: no group is in both stage slots of the room service's tree.
C9_StageUnique == serverProps.g1 # "" => serverProps.g1 # serverProps.g2

\* C10 as stated: clickPlatform writes a group only into a slot that is empty
\* in platformState when the slot is chosen.
C10_WritesEmptySlot ==
    [][(cmd.pc = "on.upsert" /\ cmd'.pc = "on.update") =>
          /\ cmd'.patch.g1 # "keep" => PlatformState(store).g1 = ""
          /\ cmd'.patch.g2 # "keep" => PlatformState(store).g2 = ""]_vars

\* the slot of the room service's tree that an off-stage update does not clear
OtherSlot(p) == IF p.g1 = "" THEN serverProps.g2 ELSE serverProps.g1

\* C11 as stated: the update that takes a group off stage sets
\* groupStates.interactOutGroup to 0 exactly when the other stage slot is
\* empty in the room service's tree, and leaves the flag alone otherwise.
C11_FlagFollowsTree ==
    cmd.pc = "off.update" => (cmd.patch.interactOutGroup = 0 <=> OtherSlot(cmd.patch) = "")

\* the remote calls of the running or last command that have the given name
Named(n) == {i \in 1..Len(remoteCalls) : remoteCalls[i].name = n}

\* the last command was a clickPlatform that ran to its end; the local view
\* it started from had handled every snapshot, and its own snapshot has been
\* handled since
Toggled ==
    /\ cmd.name = "clickPlatform" /\ cmd.pc = "idle" /\ cmd.failedAt = ""
    /\ cmd.synced /\ inflight = <<>>

\* C12: a clickPlatform(G) that starts from an empty stage ends, once its
\* snapshot is handled, with the stage {g1: G, g2: empty} after exactly one
\* batch upsert of all members of G with videoState 1 and audioState 1; a
\* clickPlatform(G) that starts from that stage ends with the empty stage
\* after exactly one batch delete of the same members; both times the local
\* roomProperties are the previous ones with the update applied.
C12_ToggleRoundTrip ==
    /\ (Toggled /\ cmd.before.g1 = "" /\ cmd.before.g2 = "") =>
          /\ PlatformState(store) = [g1 |-> cmd.group, g2 |-> ""]
          /\ Cardinality(Named("batchUpsertStream")) = 1
          /\ Named("batchDeleteStream") = {}
          /\ remoteCalls[1] = [name |-> "batchUpsertStream", members |-> GroupMembers(cmd.group),
                               videoState |-> 1, audioState |-> 1, patch |-> NoPatch]
          /\ store.roomProperties = ApplyPatch(cmd.before, cmd.patch)
    /\ (Toggled /\ cmd.before.g1 = cmd.group /\ cmd.before.g2 = "") =>
          /\ PlatformState(store) = [g1 |-> "", g2 |-> ""]
          /\ Cardinality(Named("batchDeleteStream")) = 1
          /\ Named("batchUpsertStream") = {}
          /\ remoteCalls[2] = [name |-> "batchDeleteStream", members |-> GroupMembers(cmd.group),
                               videoState |-> -1, audioState |-> -1, patch |-> NoPatch]
          /\ store.roomProperties = ApplyPatch(cmd.before, cmd.patch)

\* the second clickPlatform of the behaviour took the group of the first one
\* off the stage again
C12_Witness ==
    /\ Toggled /\ clicks = 2 /\ saves.removeGroup = 0
    /\ cmd.before.g1 = cmd.group /\ cmd.before.g2 = ""
    /\ PlatformState(store) = [g1 |-> "", g2 |-> ""]
    /\ GroupMembers(cmd.group) = {"u1", "u2"}

\* C13 as stated: the stage slots of the room service's tree change only in a
\* step of clickPlatform; in particular an occupied stage becomes empty only
\* when clickPlatform takes a group off.
C13_OnlyToggleWritesSlots ==
    [][(serverProps'.g1 # serverProps.g1 \/ serverProps'.g2 # serverProps.g2) =>
          /\ cmd'.name = "clickPlatform"
          /\ (serverProps'.g1 = "" /\ serverProps'.g2 = "") => cmd'.branch = "off"]_vars

\* the names of the remote calls made so far, in order
CallNames == [i \in 1..Len(remoteCalls) |-> remoteCalls[i].name]

\* the two calls of a stage transition, in the order of the code
TransitionCalls(branch) ==
    CASE branch = "on" -> <<"batchUpsertStream", "updateRoomBatchProperties">>
      [] branch = "off" -> <<"updateRoomBatchProperties", "batchDeleteStream">>
      [] OTHER -> <<>>

\* the first call of the transition has taken effect at the room service
FirstInPlace ==
    IF cmd.branch = "on" THEN GroupMembers(cmd.group) \subseteq serverStreams
    ELSE ApplyPatch(serverProps, cmd.patch) = serverProps

\* C14: clickPlatform makes its two remote calls one after the other, upsert
\* then update when going on stage, update then delete when going off; when
\* the first call fails the second is never made; when the second fails the
\* first one's effect stays, no further call is made, and clickPlatform ends
\* with the failure.
C14_TwoSequentialCalls ==
    cmd.name = "clickPlatform" =>
        /\ Len(remoteCalls) <= 2
        /\ CallNames = SubSeq(TransitionCalls(cmd.branch), 1, Len(remoteCalls))
        /\ AwaitsFirst(cmd) => Len(remoteCalls) = 1
        /\ AwaitsSecond(cmd) => Len(remoteCalls) = 2 /\ FirstInPlace
        /\ cmd.failedAt # "" => cmd.pc = "idle"
        /\ cmd.failedAt \in {"on.upsert", "off.update"} => Len(remoteCalls) = 1
        /\ cmd.failedAt \in {"on.update", "off.delete"} => Len(remoteCalls) = 2 /\ FirstInPlace

\* the update of an on-stage transition failed after the upsert succeeded:
\* the members' streams are there and the stage slot is not written
C14_Witness ==
    /\ cmd.name = "clickPlatform" /\ cmd.failedAt = "on.update"
    /\ GroupMembers(cmd.group) \subseteq serverStreams
    /\ serverProps.g1 # cmd.group /\ serverProps.g2 # cmd.group

\* the students an update writes a reward for
Rewarded(p) == {u \in Students : p.reward[u] # -1}

\* C15: addGroupStar(group) makes exactly one remote call, a property update
\* with one reward entry per member of the group and nothing else, each entry
\* being the member's reward in the local view plus 1.
C15_OneUpdateForGroup ==
    cmd.name = "addGroupStar" =>
        /\ Len(remoteCalls) = 1
        /\ remoteCalls[1].name = "updateRoomBatchProperties"
        /\ Rewarded(remoteCalls[1].patch) = GroupMembers(cmd.group)
        /\ Cardinality(Rewarded(remoteCalls[1].patch)) = Cardinality(GroupMembers(cmd.group))
        /\ \A u \in GroupMembers(cmd.group) :
              remoteCalls[1].patch.reward[u] = cmd.before.reward[u] + 1
        /\ [remoteCalls[1].patch EXCEPT !.reward = NoPatch.reward] = NoPatch

\* a group of two whose members already have a reward got its next star
C15_Witness ==
    /\ cmd.name = "addGroupStar" /\ cmd.group = "group_id_1"
    /\ cmd.before.reward["u1"] = 1 /\ cmd.before.reward["u2"] = 1
    /\ remoteCalls[1].patch.reward["u1"] = 2 /\ remoteCalls[1].patch.reward["u2"] = 2

\* the addGroupStar invocations so far that had the student in their group
StarsFor(u) ==
    Cardinality({i \in 1..Len(stars) : stars[i].name = "addGroupStar" /\ u \in GroupMembers(stars[i].group)})

\* C16 as stated: when only addGroupStar has written rewards and every
\* snapshot has been handled, each student's reward in the room service's
\* tree is the initial 0 plus the number of addGroupStar invocations on the
\* student's group.
C16_RewardCountsStars ==
    (inflight = <<>> /\ \A i \in 1..Len(stars) : stars[i].name = "addGroupStar") =>
        \A u \in Students : serverProps.reward[u] = StarsFor(u)

\* this step handled a classroom-property-updated snapshot
SnapshotHandled ==
    /\ Len(applied') = Len(applied) + 1
    /\ applied'[Len(applied')].by = "snapshot"

\* C17: a step of addGroupStar, sendReward or clickPlatform leaves the local
\* roomProperties as they are; once join() has loaded them they change only
\* in a step that handles a classroom-property-updated snapshot.
C17_LocalViewFollowsSnapshots ==
    [][/\ (cmd' # cmd \/ remoteCalls' # remoteCalls) =>
              store'.roomProperties = store.roomProperties
       /\ (joinPc # "init" /\ store'.roomProperties # store.roomProperties) =>
              SnapshotHandled]_vars

\* clickPlatform and then a reward command have written the tree, and the
\* local view still shows none of it: no group on stage and no reward
C17_Witness ==
    /\ cmd.name \in {"addGroupStar", "sendReward"} /\ clicks > 0
    /\ serverProps.g1 # "" /\ \E u \in Students : serverProps.reward[u] > 0
    /\ store.roomProperties.g1 = "" /\ \A u \in Students : store.roomProperties.reward[u] = 0

\* the snapshot that the classroom-property-updated handler gets in this step
Snapshot == Head(inflight)

\* the "system" messages in the chat list
SystemMessages(s) == {i \in 1..Len(s.roomChatMessages) : s.roomChatMessages[i] = "system"}

\* the handled snapshots with record.state 1 that a later handled snapshot
\* with record.state 0 followed
StoppedRecordings ==
    {i \in 1..Len(applied) :
        /\ applied[i].by = "snapshot" /\ applied[i].record = 1
        /\ \E j \in (i + 1)..Len(applied) : applied[j].by = "snapshot" /\ applied[j].record = 0}

\* C18: handling a snapshot with record.state 0 while recordState is true
\* appends exactly one system chat message, sets recordState false and clears
\* recordId; while recordState is false it appends nothing; and there are
\* never more system messages than handled snapshots with record.state 1 that
\* were followed by one with record.state 0.
C18_RecordingEdge ==
    /\ [][(SnapshotHandled /\ Snapshot.roomProperties.record = 0) =>
             IF store.recordState
             THEN /\ store'.roomChatMessages = Append(store.roomChatMessages, "system")
                  /\ ~store'.recordState
                  /\ store'.recordId = ""
             ELSE /\ store'.roomChatMessages = store.roomChatMessages
                  /\ ~store'.recordState
                  /\ store'.recordId = store.recordId]_vars
    /\ [](Cardinality(SystemMessages(store)) <= Cardinality(StoppedRecordings))

\* a recording whose id was cached has stopped: one system message, the id is
\* cleared
C18_Witness ==
    /\ Cardinality(SystemMessages(store)) = 1 /\ Cardinality(StoppedRecordings) >= 1
    /\ joinPc = "joined" /\ ~store.recordState /\ store.recordId = ""
    /\ serverProps.record = 0 /\ inflight = <<>>

\* C19: handling a snapshot whose courseState differs from classState sets
\* classState and startTime to the snapshot's values and has the timer
\* registered exactly when the new state is 1; handling one whose courseState
\* equals classState leaves classState, startTime and the timer alone.
C19_ClassStateEdge ==
    [][SnapshotHandled =>
          IF Snapshot.roomStatus.courseState # store.classState
          THEN /\ store'.classState = Snapshot.roomStatus.courseState
               /\ store'.startTime = Snapshot.roomStatus.startTime
               /\ store'.timer <=> (Snapshot.roomStatus.courseState = 1)
          ELSE /\ store'.classState = store.classState
               /\ store'.startTime = store.startTime
               /\ store'.timer <=> store.timer]_vars

\* the class was started after the session had joined with the class not
\* running: the timer runs from the start time of the snapshot
C19_Witness ==
    /\ Len(applied) >= 2
    /\ applied[Len(applied)].by = "snapshot" /\ applied[Len(applied)].courseState = 1
    /\ applied[Len(applied) - 1].courseState = 0
    /\ store.classState = 1 /\ store.timer /\ store.startTime = serverStatus.startTime
    /\ store.startTime > 0

\* C20 as stated: once join() has assigned classState, the timer is registered
\* exactly when the class state of the room status applied last, by join() or
\* by the handler, is 1.
C20_TimerFollowsClassState ==
    joinPc \in {"entered", "attached", "joined"} =>
        (store.timer <=> applied[Len(applied)].courseState = 1)

\* C21 as stated: when leave() has returned, after success or after a failed
\* step, the 'timer' interval is not registered.
C21_NoTimerAfterLeave == leavePc = "left" => ~store.timer

C23_NothingOutlivesLeave ==
    leavePc = "left" =>
        /\ store.roomChatMessages = <<>>
        /\ store.notice = NoNotice
        /\ ~store.quit
        /\ store.roomProperties = InitialRoomProperties
        /\ ~store.joined

JoinReads == joinPc \in {"init", "roomJoin"} /\ joinPc' \in {"entered", "studentInit"}

\* C25: join() issues the update that writes students.<userUuid>, with reward
\* 0, exactly when the local user is a student and the room's properties have
\* no such record; otherwise it issues no update and the tree, the rewards
\* included, stays as it is.
C25_RecordOnlyWhenAbsent ==
    [][JoinReads =>
          IF userRole = "student" /\ LocalUser \notin serverProps.students
          THEN /\ serverProps' = [serverProps EXCEPT !.students = @ \cup {LocalUser},
                                                     !.reward[LocalUser] = 0]
               /\ Len(inflight') = Len(inflight) + 1
          ELSE /\ serverProps' = serverProps
               /\ inflight' = inflight]_vars

\* a student who was rewarded has left and joined again: the reward is there
C25_Witness ==
    /\ userRole = "student" /\ Cardinality(Joins) = 2 /\ joinPc = "entered"
    /\ LocalUser \in serverProps.students
    /\ serverProps.reward[LocalUser] > 0

\* C26 as stated: once the stream notifications that arrived have been
\* handled, the teacher's sharing flag is true exactly when the local screen
\* descriptor is online, and another role's exactly when the full stream list
\* has a screen stream.
C26_SharingFollowsScreen ==
    (Quiescent /\ arrived > 0) =>
        IF userRole = "teacher"
        THEN store.sharing <=> Online(localScreenData)
        ELSE store.sharing <=> ("screen" \in fullStreamList)

\* the mutex starts the task of a peer message
StartsUserMessage ==
    /\ ~locked /\ queue # <<>> /\ queue' = Tail(queue)
    /\ Head(queue).ev.kind = "user-message"

Decoded(msg) == msg.json /\ msg.wellFormed

\* C27: the task of a peer message that cannot be decoded (no JSON, or no
\* data / payload / fromUser), or that decodes to a command other than 1, runs
\* to its end without raising and leaves the notice, applyUsers and the
\* device state unchanged.
C27_UndecodableDropped ==
    [][(StartsUserMessage /\ ~(Decoded(Head(queue).ev.msg) /\ Head(queue).ev.msg.cmd = 1))
          => /\ store' = store
             /\ escaped' = escaped
             /\ ctxs' = ctxs /\ ~locked']_vars

\* a message without fromUser was handled in the attached session after an
\* invitation had set the notice: its task failed inside its try block
C27_Witness ==
    /\ lastPass.ev.kind = "user-message" /\ lastPass.ev.msg = Malformed
    /\ lastPass.guard /\ lastPass.failed = "caught" /\ lastPass.calls = <<>>
    /\ store.notice # NoNotice
    /\ escaped = 0

\* the state of the user's stream when the operation looked it up: the
\* student stream, or audio and video off for a student record without one
MuteCurrent ==
    LET st == cmd.streams[cmd.user] IN
    IF st.present THEN st
    ELSE IF cmd.user \in cmd.before.students THEN MediaStream(FALSE, FALSE)
    ELSE NoStream

\* C28: a remote mute / unmute issues exactly one batch upsert of the user's
\* one stream, with the targeted bit at the requested value and the other
\* bit at the stream's current state; without a stream or a student record,
\* or with isLocal true, it issues no remote call.
C28_MuteUpsertsOneBit ==
    cmd.name \in MuteNames =>
        IF cmd.branch = "local" \/ ~MuteCurrent.present
        THEN remoteCalls = <<>>
        ELSE /\ Len(remoteCalls) = 1
             /\ remoteCalls[1].name = "batchUpsertStream"
             /\ remoteCalls[1].members = {cmd.user}
             /\ remoteCalls[1].videoState =
                   (CASE cmd.name = "unmuteVideo" -> 1
                      [] cmd.name = "muteVideo" -> 0
                      [] OTHER -> Bit(MuteCurrent.video))
             /\ remoteCalls[1].audioState =
                   (CASE cmd.name = "unmuteAudio" -> 1
                      [] cmd.name = "muteAudio" -> 0
                      [] OTHER -> Bit(MuteCurrent.audio))

\* muteVideo of a user whose stream has video on and audio off: the batch
\* carries video 0 and audio 0
C28_Witness ==
    /\ cmd.name = "muteVideo" /\ cmd.branch = "remote" /\ cmd.failedAt = ""
    /\ cmd.streams[cmd.user] = MediaStream(TRUE, FALSE)
    /\ Len(remoteCalls) = 1
    /\ remoteCalls[1].videoState = 0 /\ remoteCalls[1].audioState = 0

\* the groups whose member streams were batch-upserted by a stage promotion
\* and not batch-deleted since
Published == {g \in GroupIds : GroupMembers(g) \subseteq serverStreams}

\* C29 as stated: when no stage command is in progress and every snapshot has
\* been delivered, every group whose member streams are published occupies
\* a stage slot of the authoritative tree.
C29_NoStageStreamLeak ==
    (cmd.pc = "idle" /\ inflight = <<>>) =>
        Published \subseteq {serverProps.g1, serverProps.g2}

\* C30 as stated: in the room service's tree, after a clickPlatform,
\* removeGroup or groupOnSave that ran to its end, groupStates.interactOutGroup
\* is 1 exactly when g1 or g2 holds a group id.
C30_OutGroupFlagMatchesSlots ==
    (cmd.name \in {"clickPlatform", "removeGroup", "groupOnSave"}
        /\ cmd.pc = "idle" /\ cmd.failedAt = "")
    => (serverProps.interactOutGroup = 1 <=> (serverProps.g1 # "" \/ serverProps.g2 # ""))

\* a task of the serializer awaits an open or close call of a device
TaskDeviceCall == \E i \in DOMAIN ctxs : ctxs[i].pc \in {"camera", "microphone"}

\* C31 as stated: while join()'s device pass awaits one of its open / close
\* calls, no task of local-stream-updated or local-stream-removed awaits a
\* device call of its own.
C31_PassNotInterleaved == ~(joinPc \in JoinDeviceCalls /\ TaskDeviceCall)

\* a task issues openCamera or openMicrophone in this step
IssuesOpen ==
    \E i \in DOMAIN ctxs' :
        /\ ctxs'[i].op = "open"
        /\ ctxs'[i].calls # (IF i \in DOMAIN ctxs THEN ctxs[i].calls ELSE <<>>)

\* C32 as stated: once leave() has been invoked, no task of a notification
\* issues openCamera or openMicrophone.
C32_NoOpenAfterLeave == [][leavePc # "idle" => ~IssuesOpen]_vars

\* the mutex starts the task of a hand-raise message in the attached session
StartsHandRaise(action) ==
    /\ StartsUserMessage /\ joiningRTC
    /\ Head(queue).ev.msg \in HandRaises
    /\ Head(queue).ev.msg.action = action

\* the users of the pending-application list
Applying(s) == {s.applyUsers[i] : i \in DOMAIN s.applyUsers}

\* C33: the pending-application list holds at most one entry per user; an
\* Apply adds the sender exactly when they are not listed and are in the
\* room's user list, a Cancel removes the sender's entries and no others, and
\* the notice holds the reason and the user id of the hand-raise message that
\* was handled.
C33_OneApplicationPerUser ==
    /\ [](Cardinality(Applying(store)) = Len(store.applyUsers))
    /\ [][LET u == Head(queue).ev.msg.uuid IN
          /\ StartsHandRaise("Apply") =>
                /\ store'.applyUsers =
                      IF u \notin Applying(store) /\ u \in fullUserList
                      THEN store.applyUsers \o <<u>> ELSE store.applyUsers
                /\ store'.notice = [reason |-> "student_hands_up", userUuid |-> u]
          /\ StartsHandRaise("Cancel") =>
                /\ Applying(store') = Applying(store) \ {u}
                /\ Len(store'.applyUsers) = Cardinality(Applying(store'))
                /\ store'.notice = [reason |-> "student_hands_down", userUuid |-> u]]_vars

\* a user in the room applied twice: the list holds them once, and the notice
\* is the one of the second Apply
C33_Witness ==
    /\ prevPass.ev.msg = Command(1, "Apply", "u2") /\ prevPass.guard
    /\ lastPass.ev.msg = Command(1, "Apply", "u2") /\ lastPass.guard
    /\ "u2" \in fullUserList
    /\ store.applyUsers = <<"u2">>
    /\ store.notice = [reason |-> "student_hands_up", userUuid |-> "u2"]

====
